---- MODULE Spec2Model ----
(***************************************************************************)
(* Field-sensitive pruned liveness (lib/SIL/Utils/                         *)
(* FieldSensitivePrunedLiveness.cpp): the per-block, per-bit liveness      *)
(* lattice, the liveness tracker with its interesting users, the single-   *)
(* and multi-definition live ranges and the boundary computation.          *)
(***************************************************************************)
EXTENDS Integers, Sequences, FiniteSets, TLC

\* ---------------------------------------------------------------- bounds
\* Number of initializeDef, updateForUse and extendToNonUse calls made on one
\* liveness instance.
MaxOps == 3

\* ------------------------------------------------------- analysed function
\* The basic blocks of the analysed function.
Blocks == {1, 2, 3}

\* Every block holds the instructions at positions 1 and 2; position 0 stands
\* for the block's argument (a definition point that is no instruction).
InstPositions == {1, 2}

ArgPosition == 0

\* The leaf bits of the root value.
Bits == {0, 1}

NumBits == Cardinality(Bits)

\* The first leaf of the value.
TrackedBit == CHOOSE b \in Bits : \A c \in Bits : b <= c

Insts == Blocks \X InstPositions

Nodes == Blocks \X ({ArgPosition} \cup InstPositions)

LastPosition == CHOOSE p \in InstPositions : \A q \in InstPositions : q <= p

\* TypeTreeLeafTypeRange: the half-open range [startEltOffset, endEltOffset).
Ranges == {r \in (0..NumBits) \X (0..NumBits) : r[1] <= r[2]}

NonEmptyRanges == {r \in Ranges : r[1] < r[2]}

RangeContains(r, bit) == r[1] <= bit /\ bit < r[2]

RangeEmpty(r) == r[1] = r[2]

RangeBits(r) == {b \in Bits : RangeContains(r, b)}

\* The elements of a finite set of integers in ascending order.
RECURSIVE SortedSeq(_)
SortedSeq(S) ==
  IF S = {} THEN <<>>
  ELSE LET m == CHOOSE x \in S : \A y \in S : x <= y
       IN <<m>> \o SortedSeq(S \ {m})

\* ------------------------------------------------------ control-flow graphs
\* Successor functions the analysis is run on: straight-line code, a branch
\* with two exits, a triangle (the edge 1 -> 3 is critical), a self-loop, a
\* loop through the entry with an exit, and an irreducible loop (the cycle
\* 2 <-> 3 is entered at both 2 and 3).
Chain == [b \in Blocks |-> IF b = 1 THEN {2} ELSE IF b = 2 THEN {3} ELSE {}]

Branch == [b \in Blocks |-> IF b = 1 THEN {2, 3} ELSE {}]

Triangle == [b \in Blocks |-> IF b = 1 THEN {2, 3} ELSE IF b = 2 THEN {3} ELSE {}]

SelfLoop == [b \in Blocks |-> IF b = 1 THEN {2} ELSE IF b = 2 THEN {2, 3} ELSE {}]

EntryLoop == [b \in Blocks |-> IF b = 1 THEN {2} ELSE IF b = 2 THEN {1, 3} ELSE {}]

Irreducible == [b \in Blocks |-> IF b = 1 THEN {2, 3} ELSE IF b = 2 THEN {3} ELSE {2}]

CFGs == {Chain, Branch, Triangle, SelfLoop, EntryLoop, Irreducible}

\* ------------------------------------------------------------------- state
VARIABLES
  succs,       \* the function's CFG: block -> set of successor blocks
  variant,     \* "SSA" (single definition) or "MultiDef"
  defs,        \* the registered definitions: set of <<node, range>>
  live,        \* liveBlocks: block -> bit -> IsLive
  discovered,  \* discoveredBlocks, in order of first visit
  users,       \* users: instruction -> bit -> recorded kind of use
  nOps,        \* number of initializeDef / updateForUse / extendToNonUse calls so far
  phase,       \* "defs", "uses", "boundary" or "halted"
  boundary,    \* the Boundary filled by the last computeBoundary
  calls,       \* the computeBoundary calls since the liveness last changed
  query,       \* the last isWithinBoundary call and its result
  search,      \* the last findEarlierConsumingUse call and its result
  wl,          \* the worklist of a computeScalarUseBlockLiveness call in progress
  rootType,    \* the type of the root value of a projection
  walker,      \* "address" (computeForAddress) or "value" (computeForValue)
  base,        \* what the projection chain starts from: "root" or "other"
  chain,       \* the instructions from the base to the derived value
  number,      \* TypeSubElementCount of the root type, once computed
  derived,     \* projectionDerivedFromRoot: position in chain, 0 is the base
  finalSubElementOffset,
  answer,      \* what computeForAddress / computeForValue returned
  tphase,      \* "idle", "typed", "counted", "walking" or "done"
  decls,       \* the declarations: what each uses and what encloses it
  subject,     \* the declaration getUniqueFeaturesUsed was called with
  enclosingDecl,
  features,    \* the FeatureSet being built: required and suppressible
  fphase,      \* "idle", "walking" or "done"
  projections, \* a constructProjectionsForNeededElements call and its worklist
  filtered,    \* the last constructFilteredProjections call and what it did
  contiguous,  \* a bit vector and what visitContiguousRanges reported of it
  matching     \* a usesTypeDeclMatching call and its visited declarations

typeVars == <<rootType, walker, base, chain, number, derived, finalSubElementOffset, answer, tphase>>

liveVars == <<succs, variant, defs, live, discovered, users, nOps, phase, boundary, calls, query>>

featureVars == <<decls, subject, enclosingDecl, features, fphase>>

callVars == <<projections, filtered, contiguous, matching>>

vars == <<liveVars, search, wl, typeVars, featureVars, callVars>>

Preds(block) == {p \in Blocks : block \in succs[p]}

\* ------------------------------------------------ FieldSensitivePrunedLiveBlocks
IsLive == {"Dead", "LiveWithin", "LiveOut"}

Rank(isLive) == CASE isLive = "Dead" -> 0 [] isLive = "LiveWithin" -> 1 [] isLive = "LiveOut" -> 2

\* The liveness engine's state: the per-block bit vectors and the list of
\* discovered blocks.
EmptyBlocks == [live |-> [b \in Blocks |-> [i \in Bits |-> "Dead"]], discovered |-> <<>>]

getBlockLiveness(st, bb, bitNo) == st.live[bb][bitNo]

\* A block enters the map, and the discovered list, the first time one of its
\* bits is marked; a bit is only ever raised: Dead takes the new value,
\* LiveWithin takes LiveOut, LiveOut stays.
markBlockLive(st, bb, bitNo, isLive) ==
  LET old == st.live[bb][bitNo]
      inserted == \A i \in Bits : st.live[bb][i] = "Dead"
      new == IF old = "Dead" THEN isLive
             ELSE IF old = "LiveWithin" /\ isLive = "LiveOut" THEN "LiveOut"
             ELSE old
  IN [live |-> [st.live EXCEPT ![bb][bitNo] = new],
      discovered |-> IF inserted THEN Append(st.discovered, bb) ELSE st.discovered]

\* Variant: every predecessor is pushed, whatever its liveness and visited
\* or not.
RECURSIVE markPredecessors_PushAlways(_, _, _)
markPredecessors_PushAlways(w, preds, bitNo) ==
  IF preds = <<>> THEN w
  ELSE
    LET predBlock == Head(preds)
        next == [st |-> markBlockLive(w.st, predBlock, bitNo, "LiveOut"),
                 worklist |-> Append(w.worklist, predBlock),
                 visited |-> w.visited \cup {predBlock}]
    IN markPredecessors_PushAlways(next, Tail(preds), bitNo)

\* The loop body of computeScalarUseBlockLiveness for the predecessors of one
\* popped block: w = [st, worklist, visited].
RECURSIVE markPredecessors(_, _, _)
markPredecessors(w, preds, bitNo) ==
  IF preds = <<>> THEN w
  ELSE
    LET predBlock == Head(preds)
        cur == getBlockLiveness(w.st, predBlock, bitNo)
        next ==
          CASE cur = "Dead" ->
                 [st |-> markBlockLive(w.st, predBlock, bitNo, "LiveOut"),
                  worklist |-> IF predBlock \in w.visited THEN w.worklist
                               ELSE Append(w.worklist, predBlock),
                  visited |-> w.visited \cup {predBlock}]
            [] cur = "LiveWithin" ->
                 [w EXCEPT !.st = markBlockLive(w.st, predBlock, bitNo, "LiveOut")]
            [] cur = "LiveOut" -> w
    IN markPredecessors(next, Tail(preds), bitNo)

RECURSIVE drainWorklist(_, _)
drainWorklist(w, bitNo) ==
  IF w.worklist = <<>> THEN w.st
  ELSE
    LET block == w.worklist[Len(w.worklist)]
        popped == [w EXCEPT !.worklist = SubSeq(w.worklist, 1, Len(w.worklist) - 1)]
    IN drainWorklist(markPredecessors(popped, SortedSeq(Preds(block)), bitNo), bitNo)

\* Variant: the use block's state is overwritten with LiveWithin.
computeScalarUseBlockLiveness_Overwrite(st, userBB, bitNo) ==
  drainWorklist([st |-> [st EXCEPT !.live[userBB][bitNo] = "LiveWithin"],
                 worklist |-> <<userBB>>, visited |-> {userBB}], bitNo)

\* Variant: the use block itself is marked LiveOut.
computeScalarUseBlockLiveness_UseBlockLiveOut(st, userBB, bitNo) ==
  drainWorklist([st |-> markBlockLive(st, userBB, bitNo, "LiveOut"),
                 worklist |-> <<userBB>>, visited |-> {userBB}], bitNo)

computeScalarUseBlockLiveness(st, userBB, bitNo) ==
  drainWorklist([st |-> markBlockLive(st, userBB, bitNo, "LiveWithin"),
                 worklist |-> <<userBB>>,
                 visited |-> {userBB}],
                bitNo)

\* One iteration of the loop of FieldSensitivePrunedLiveBlocks::updateForUse.
\* Variant: a block that is already live is never walked again, also for a
\* use before the definitions of its block.
updateForUseBit_NoUseBeforeDef(st, bb, specificBitNo, useBeforeDefBits) ==
  IF getBlockLiveness(st, bb, specificBitNo) \in {"LiveOut", "LiveWithin"} THEN st
  ELSE computeScalarUseBlockLiveness(st, bb, specificBitNo)

\* Variant: the walk is made whatever the state of the block.
updateForUseBit_AlwaysWalk(st, bb, specificBitNo, useBeforeDefBits) ==
  computeScalarUseBlockLiveness(st, bb, specificBitNo)

updateForUseBit(st, bb, specificBitNo, useBeforeDefBits) ==
  LET isUseBeforeDef == specificBitNo \in useBeforeDefBits
      cur == getBlockLiveness(st, bb, specificBitNo)
  IN IF cur \in {"LiveOut", "LiveWithin"} /\ ~isUseBeforeDef THEN st
     ELSE computeScalarUseBlockLiveness(st, bb, specificBitNo)

RECURSIVE updateForUseFrom(_, _, _, _, _)
updateForUseFrom(st, bb, bitNo, endBitNo, useBeforeDefBits) ==
  IF bitNo >= endBitNo THEN st
  ELSE updateForUseFrom(updateForUseBit(st, bb, bitNo, useBeforeDefBits),
                        bb, bitNo + 1, endBitNo, useBeforeDefBits)

\* Variant: every bit of the value is updated, whatever the range.
blocksUpdateForUse_EveryBit(st, user, startBitNo, endBitNo, useBeforeDefBits) ==
  updateForUseFrom(st, user[1], 0, NumBits, useBeforeDefBits)

blocksUpdateForUse(st, user, startBitNo, endBitNo, useBeforeDefBits) ==
  updateForUseFrom(st, user[1], startBitNo, endBitNo, useBeforeDefBits)

\* ------------------------------------------------- FieldSensitivePrunedLiveness
\* An instruction's InterestingUser entry: the bit vectors liveBits and
\* consumingBits.  As print() reads them, a bit that is in neither is not
\* recorded, a bit only in consumingBits is a non-user, a bit in both is a
\* lifetime-ending user and a bit only in liveBits is a regular user.
NoUsers == [i \in Insts |-> [liveBits |-> {}, consumingBits |-> {}]]

IsInterestingUser == {"NonUser", "NonLifetimeEndingUse", "LifetimeEndingUse"}

isInterestingUser(us, inst, bit) ==
  LET isLive == bit \in us[inst].liveBits
      isConsuming == bit \in us[inst].consumingBits
  IN IF ~isLive THEN "NonUser"
     ELSE IF isConsuming THEN "LifetimeEndingUse"
     ELSE "NonLifetimeEndingUse"

\* isInterestingUser(...) read as a condition: any value but NonUser.
isInteresting(us, inst, bit) == isInterestingUser(us, inst, bit) # "NonUser"

\* The instruction was handed to updateForUse or extendToNonUse for the bit.
isRecorded(us, inst, bit) ==
  bit \in us[inst].liveBits \/ bit \in us[inst].consumingBits

addInterestingUser(us, user, range, lifetimeEnding) ==
  [us EXCEPT ![user] =
     [liveBits |-> @.liveBits \cup RangeBits(range),
      consumingBits |-> IF lifetimeEnding THEN @.consumingBits \cup RangeBits(range)
                        ELSE @.consumingBits \ RangeBits(range)]]

addNonUser(us, user, range) ==
  [us EXCEPT ![user] =
     [liveBits |-> @.liveBits \ RangeBits(range),
      consumingBits |-> @.consumingBits \cup RangeBits(range)]]

\* FieldSensitivePrunedLiveness::updateForUse and ::extendToNonUse on the pair
\* t = [st, users].
livenessUpdateForUse(t, user, range, lifetimeEnding, useBeforeDefBits) ==
  [st |-> blocksUpdateForUse(t.st, user, range[1], range[2], useBeforeDefBits),
   users |-> addInterestingUser(t.users, user, range, lifetimeEnding)]

livenessExtendToNonUse(t, user, range, useBeforeDefBits) ==
  [st |-> blocksUpdateForUse(t.st, user, range[1], range[2], useBeforeDefBits),
   users |-> addNonUser(t.users, user, range)]

\* ------------------------------------------------------------- definitions
\* isDef / isDefBlock of both live ranges, over the registered definitions ds.
isDef(ds, node, bit) == \E d \in ds : d[1] = node /\ RangeContains(d[2], bit)

isDefBlock(ds, block, bit) == \E d \in ds : d[1][1] = block /\ RangeContains(d[2], bit)

\* initializeDefBlock: the definition's block is LiveWithin for every bit of
\* the defined range.
RECURSIVE initializeDefBlockFrom(_, _, _, _)
initializeDefBlockFrom(st, bb, bitNo, endBitNo) ==
  IF bitNo >= endBitNo THEN st
  ELSE initializeDefBlockFrom(markBlockLive(st, bb, bitNo, "LiveWithin"), bb, bitNo + 1, endBitNo)

initializeDefBlock(st, bb, range) == initializeDefBlockFrom(st, bb, range[1], range[2])

\* FieldSensitiveMultiDefPrunedLiveRange::isUserBeforeDef(user, element).
RECURSIVE noDefAbove(_, _, _, _)
noDefAbove(ds, block, pos, element) ==
  IF pos < 1 THEN TRUE
  ELSE IF isDef(ds, <<block, pos>>, element) THEN FALSE
  ELSE noDefAbove(ds, block, pos - 1, element)

\* Variant: the walk starts at the user itself.
multiDefIsUserBeforeDef_FromUser(ds, user, element) ==
  IF ~isDefBlock(ds, user[1], element) THEN FALSE
  ELSE IF isDef(ds, <<user[1], ArgPosition>>, element) THEN FALSE
  ELSE noDefAbove(ds, user[1], user[2], element)

multiDefIsUserBeforeDef(ds, user, element) ==
  IF ~isDefBlock(ds, user[1], element) THEN FALSE
  ELSE IF isDef(ds, <<user[1], ArgPosition>>, element) THEN FALSE
  ELSE noDefAbove(ds, user[1], user[2] - 1, element)

\* isUserBeforeDef(user, range, useBeforeDefBits) of the two live ranges: the
\* single-definition range sets no bit.
useBeforeDefBitsOf(var, ds, user, range) ==
  IF var = "SSA" THEN {}
  ELSE {b \in RangeBits(range) : multiDefIsUserBeforeDef(ds, user, b)}

\* FieldSensitivePrunedLiveRange::updateForUse and ::extendToNonUse.
rangeUpdateForUse(var, ds, t, user, range, lifetimeEnding) ==
  livenessUpdateForUse(t, user, range, lifetimeEnding, useBeforeDefBitsOf(var, ds, user, range))

rangeExtendToNonUse(var, ds, t, user, range) ==
  livenessExtendToNonUse(t, user, range, useBeforeDefBitsOf(var, ds, user, range))

\* ------------------------------------------- FieldSensitivePrunedLivenessBoundary
\* The three maps of a boundary as sets of (key, bit) pairs, and whether the
\* computation ran to its end (no llvm_unreachable, no failed assertion).
EmptyBoundary == [lastUsers |-> {}, deadDefs |-> {}, boundaryEdges |-> {}, ok |-> TRUE]

LastUser(inst, bitNo) == [EmptyBoundary EXCEPT !.lastUsers = {<<inst, bitNo>>}]

DeadDef(node, bitNo) == [EmptyBoundary EXCEPT !.deadDefs = {<<node, bitNo>>}]

BoundaryEdge(block, bitNo) == [EmptyBoundary EXCEPT !.boundaryEdges = {<<block, bitNo>>}]

Unreachable == [EmptyBoundary EXCEPT !.ok = FALSE]

Merge(x, y) ==
  [lastUsers |-> x.lastUsers \cup y.lastUsers,
   deadDefs |-> x.deadDefs \cup y.deadDefs,
   boundaryEdges |-> x.boundaryEdges \cup y.boundaryEdges,
   ok |-> x.ok /\ y.ok]

\* findBoundaryInNonDefBlock: the scan of the block from position pos upwards.
\* Variant: the scan stops at any instruction recorded for the bit, a non-use
\* included.
RECURSIVE nonDefBlockScan_AnyRecorded(_, _, _, _)
nonDefBlockScan_AnyRecorded(us, block, pos, bitNo) ==
  IF pos < 1 THEN Unreachable
  ELSE IF isRecorded(us, <<block, pos>>, bitNo) THEN LastUser(<<block, pos>>, bitNo)
  ELSE nonDefBlockScan_AnyRecorded(us, block, pos - 1, bitNo)

RECURSIVE nonDefBlockScan(_, _, _, _)
nonDefBlockScan(us, block, pos, bitNo) ==
  IF pos < 1 THEN Unreachable
  ELSE IF isInteresting(us, <<block, pos>>, bitNo) THEN LastUser(<<block, pos>>, bitNo)
  ELSE nonDefBlockScan(us, block, pos - 1, bitNo)

\* Variant: every interesting user of the block is recorded as a last user.
findBoundaryInNonDefBlock_EveryUse(us, block, bitNo) ==
  LET found == {<<<<block, p>>, bitNo>> : p \in {q \in InstPositions : isInteresting(us, <<block, q>>, bitNo)}}
  IN IF found = {} THEN Unreachable ELSE [EmptyBoundary EXCEPT !.lastUsers = found]

findBoundaryInNonDefBlock(us, block, bitNo) ==
  nonDefBlockScan(us, block, LastPosition, bitNo)

\* findBoundaryInSSADefBlock: the definition is met before a user is asked for.
\* Variant: a user of any bit of the value counts as a user of the bit.
RECURSIVE ssaDefBlockScan_AnyBit(_, _, _, _)
ssaDefBlockScan_AnyBit(us, ssaDef, pos, bitNo) ==
  IF pos < 1 THEN DeadDef(ssaDef, bitNo)
  ELSE IF <<ssaDef[1], pos>> = ssaDef THEN DeadDef(ssaDef, bitNo)
  ELSE IF \E b \in Bits : isInteresting(us, <<ssaDef[1], pos>>, b)
  THEN LastUser(<<ssaDef[1], pos>>, bitNo)
  ELSE ssaDefBlockScan_AnyBit(us, ssaDef, pos - 1, bitNo)

RECURSIVE ssaDefBlockScan(_, _, _, _)
ssaDefBlockScan(us, ssaDef, pos, bitNo) ==
  IF pos < 1 THEN DeadDef(ssaDef, bitNo)
  ELSE IF <<ssaDef[1], pos>> = ssaDef THEN DeadDef(ssaDef, bitNo)
  ELSE IF isInteresting(us, <<ssaDef[1], pos>>, bitNo) THEN LastUser(<<ssaDef[1], pos>>, bitNo)
  ELSE ssaDefBlockScan(us, ssaDef, pos - 1, bitNo)

\* Variant: a definition without a user below it is not recorded as dead.
findBoundaryInSSADefBlock_NoDeadDef(us, ssaDef, bitNo) ==
  LET found == ssaDefBlockScan(us, ssaDef, LastPosition, bitNo)
  IN [found EXCEPT !.deadDefs = {}]

findBoundaryInSSADefBlock(us, ssaDef, bitNo) ==
  ssaDefBlockScan(us, ssaDef, LastPosition, bitNo)

\* The single definition of a range that has exactly one.
theDef(ds) == (CHOOSE d \in ds : TRUE)[1]

\* FieldSensitiveSSAPrunedLiveRange::findBoundariesInBlock.
\* Variant: LiveOut blocks are scanned for a last user as well.
ssaFindBoundariesInBlock_ScanLiveOut(ds, st, us, block, bitNo, isLiveOut) ==
  IF ~isDefBlock(ds, block, bitNo)
  THEN [nonDefBlockScan(us, block, LastPosition, bitNo) EXCEPT !.ok = TRUE]
  ELSE findBoundaryInSSADefBlock(us, theDef(ds), bitNo)

ssaFindBoundariesInBlock(ds, st, us, block, bitNo, isLiveOut) ==
  IF isLiveOut THEN EmptyBoundary
  ELSE IF ~isDefBlock(ds, block, bitNo) THEN findBoundaryInNonDefBlock(us, block, bitNo)
  ELSE findBoundaryInSSADefBlock(us, theDef(ds), bitNo)

\* The backward scan of FieldSensitiveMultiDefPrunedLiveRange::
\* findBoundariesInBlock over the instructions: s = [isLive, found].
\* Variant: the dead definition is recorded on any instruction met while the
\* bit is not live, definition or not.
multiDefScanStep_DeadDefAnywhere(ds, us, s, inst, bitNo) ==
  LET atDef == isDef(ds, inst, bitNo)
      deadDef == IF ~s.isLive THEN DeadDef(inst, bitNo) ELSE EmptyBoundary
      liveAfterDef == IF atDef THEN FALSE ELSE s.isLive
      atUse == ~liveAfterDef /\ isInteresting(us, inst, bitNo)
      lastUser == IF atUse THEN LastUser(inst, bitNo) ELSE EmptyBoundary
  IN [isLive |-> liveAfterDef \/ atUse,
      found |-> Merge(s.found, Merge(deadDef, lastUser))]

\* Variant: the instruction is asked whether it is a user before it is asked
\* whether it is a definition.
multiDefScanStep_UseFirst(ds, us, s, inst, bitNo) ==
  LET atDef == isDef(ds, inst, bitNo)
      atUse == ~s.isLive /\ isInteresting(us, inst, bitNo)
      lastUser == IF atUse THEN LastUser(inst, bitNo) ELSE EmptyBoundary
      liveAfterUse == s.isLive \/ atUse
      deadDef == IF atDef /\ ~liveAfterUse THEN DeadDef(inst, bitNo) ELSE EmptyBoundary
  IN [isLive |-> IF atDef THEN FALSE ELSE liveAfterUse,
      found |-> Merge(s.found, Merge(deadDef, lastUser))]

multiDefScanStep(ds, us, s, inst, bitNo) ==
  LET atDef == isDef(ds, inst, bitNo)
      deadDef == IF atDef /\ ~s.isLive THEN DeadDef(inst, bitNo) ELSE EmptyBoundary
      liveAfterDef == IF atDef THEN FALSE ELSE s.isLive
      atUse == ~liveAfterDef /\ isInteresting(us, inst, bitNo)
      lastUser == IF atUse THEN LastUser(inst, bitNo) ELSE EmptyBoundary
  IN [isLive |-> liveAfterDef \/ atUse,
      found |-> Merge(s.found, Merge(deadDef, lastUser))]

RECURSIVE multiDefScan(_, _, _, _, _, _)
multiDefScan(ds, us, s, block, pos, bitNo) ==
  IF pos < 1 THEN s
  ELSE multiDefScan(ds, us, multiDefScanStep(ds, us, s, <<block, pos>>, bitNo), block, pos - 1, bitNo)

\* What findBoundariesInBlock does once the scan has reached the top of the
\* block without the bit being live.
multiDefBlockTop(ds, st, block, bitNo) ==
  LET deadArg == IF isDef(ds, <<block, ArgPosition>>, bitNo)
                 THEN DeadDef(<<block, ArgPosition>>, bitNo) ELSE EmptyBoundary
      edge == IF Preds(block) # {}
                 /\ \A predBlock \in Preds(block) : getBlockLiveness(st, predBlock, bitNo) = "LiveOut"
              THEN BoundaryEdge(block, bitNo) ELSE EmptyBoundary
  IN Merge(deadArg, edge)

\* into is the caller's boundary as it is when the block is reached: the
\* closing assertion compares its count of last users and dead definitions
\* of the bit before and after the scan.
multiDefFindBoundariesInBlock(ds, st, us, block, bitNo, isLiveOut, into) ==
  IF ~isDefBlock(ds, block, bitNo)
  THEN IF isLiveOut THEN EmptyBoundary ELSE findBoundaryInNonDefBlock(us, block, bitNo)
  ELSE IF Cardinality(ds) = 1
  THEN IF isLiveOut THEN EmptyBoundary ELSE findBoundaryInSSADefBlock(us, theDef(ds), bitNo)
  ELSE
    LET s == multiDefScan(ds, us, [isLive |-> isLiveOut, found |-> EmptyBoundary],
                          block, LastPosition, bitNo)
        found == IF s.isLive THEN s.found
                 ELSE Merge(s.found, multiDefBlockTop(ds, st, block, bitNo))
        counted == \/ ~(found.lastUsers \subseteq into.lastUsers)
                   \/ ~(found.deadDefs \subseteq into.deadDefs)
    IN [found EXCEPT !.ok = isLiveOut \/ counted]

findBoundariesInBlock(var, ds, st, us, block, bitNo, isLiveOut, into) ==
  IF var = "SSA" THEN ssaFindBoundariesInBlock(ds, st, us, block, bitNo, isLiveOut)
  ELSE multiDefFindBoundariesInBlock(ds, st, us, block, bitNo, isLiveOut, into)

\* The switch of computeBoundary for one bit of one discovered block.
\* Variant: a LiveWithin block is not searched.
boundaryOfBit_SkipLiveWithin(var, ds, st, us, block, index, into) ==
  LET isLive == getBlockLiveness(st, block, index)
  IN IF isLive = "LiveOut"
     THEN Merge([EmptyBoundary EXCEPT !.boundaryEdges =
                   {<<succBB, index>> : succBB \in
                      {s \in succs[block] : getBlockLiveness(st, s, index) = "Dead"}}],
                findBoundariesInBlock(var, ds, st, us, block, index, TRUE, into))
     ELSE EmptyBoundary

\* Variant: the Dead successors of a LiveOut block are not marked.
boundaryOfBit_NoEdges(var, ds, st, us, block, index, into) ==
  LET isLive == getBlockLiveness(st, block, index)
  IN IF isLive = "Dead" THEN EmptyBoundary
     ELSE findBoundariesInBlock(var, ds, st, us, block, index, isLive = "LiveOut", into)

boundaryOfBit(var, ds, st, us, block, index, into) ==
  LET isLive == getBlockLiveness(st, block, index)
  IN CASE isLive = "LiveOut" ->
            Merge([EmptyBoundary EXCEPT !.boundaryEdges =
                     {<<succBB, index>> : succBB \in
                        {s \in succs[block] : getBlockLiveness(st, s, index) = "Dead"}}],
                  findBoundariesInBlock(var, ds, st, us, block, index, TRUE, into))
       [] isLive = "LiveWithin" ->
            findBoundariesInBlock(var, ds, st, us, block, index, FALSE, into)
       [] isLive = "Dead" -> EmptyBoundary

RECURSIVE boundaryOfBits(_, _, _, _, _, _, _)
boundaryOfBits(var, ds, st, us, block, index, into) ==
  IF index >= NumBits THEN into
  ELSE boundaryOfBits(var, ds, st, us, block, index + 1,
                      Merge(into, boundaryOfBit(var, ds, st, us, block, index, into)))

boundaryOfBlock(var, ds, st, us, block, into) ==
  LET foundAnyNonDead == \E index \in Bits : getBlockLiveness(st, block, index) # "Dead"
      found == boundaryOfBits(var, ds, st, us, block, 0, into)
  IN [found EXCEPT !.ok = @ /\ foundAnyNonDead]

RECURSIVE boundaryOfBlocks(_, _, _, _, _, _)
boundaryOfBlocks(var, ds, st, us, blocks, into) ==
  IF blocks = <<>> THEN into
  ELSE boundaryOfBlocks(var, ds, st, us, Tail(blocks),
                        boundaryOfBlock(var, ds, st, us, Head(blocks), into))

\* FieldSensitivePrunedLiveRange::computeBoundary(boundary): the facts are
\* set in the boundary the caller hands in.
computeBoundary(var, ds, st, us, into) ==
  boundaryOfBlocks(var, ds, st, us, st.discovered, into)

\* -------------------------------------------------------- isWithinBoundary
\* The backward walk of isWithinBoundary over one block for one bit, from
\* position pos up to the instruction asked about.
\* Variant: the walk asks for a user before it compares the instruction.
RECURSIVE withinScan_UseFirst(_, _, _, _, _, _)
withinScan_UseFirst(ds, us, inst, pos, bit, isLive) ==
  LET blockInst == <<inst[1], pos>>
      liveAfterDef == IF isDef(ds, blockInst, bit) THEN FALSE ELSE isLive
      liveAfterUse == liveAfterDef \/ isInteresting(us, blockInst, bit)
  IN IF pos < 1 THEN FALSE
     ELSE IF blockInst = inst THEN liveAfterUse
     ELSE withinScan_UseFirst(ds, us, inst, pos - 1, bit, liveAfterUse)

RECURSIVE withinScan(_, _, _, _, _, _)
withinScan(ds, us, inst, pos, bit, isLive) ==
  LET blockInst == <<inst[1], pos>>
      liveAfterDef == IF isDef(ds, blockInst, bit) THEN FALSE ELSE isLive
  IN IF pos < 1 THEN FALSE
     ELSE IF blockInst = inst THEN liveAfterDef
     ELSE withinScan(ds, us, inst, pos - 1, bit,
                     liveAfterDef \/ isInteresting(us, blockInst, bit))

RECURSIVE isWithinBoundaryFrom(_, _, _, _, _, _)
isWithinBoundaryFrom(ds, st, us, inst, bit, endBit) ==
  LET isLive == getBlockLiveness(st, inst[1], bit)
  IN IF bit >= endBit THEN FALSE
     ELSE IF isLive = "Dead" THEN isWithinBoundaryFrom(ds, st, us, inst, bit + 1, endBit)
     ELSE IF isLive = "LiveOut" /\ ~isDefBlock(ds, inst[1], bit) THEN TRUE
     ELSE IF withinScan(ds, us, inst, LastPosition, bit, isLive = "LiveOut") THEN TRUE
     ELSE isWithinBoundaryFrom(ds, st, us, inst, bit + 1, endBit)

\* Variant: no early return for an empty span.
isWithinBoundary_NoEarlyReturn(ds, st, us, inst, span) ==
  isWithinBoundaryFrom(ds, st, us, inst, span[1], span[2])

isWithinBoundary(ds, st, us, inst, span) ==
  IF RangeEmpty(span) THEN TRUE
  ELSE isWithinBoundaryFrom(ds, st, us, inst, span[1], span[2])

\* ------------------------------------------------------------ declarations
\* The declarations of the module being printed, outermost first, and the
\* absent declaration (a null Decl *).
Decls == {1, 2, 3}

NoDecl == 0

\* One language feature of each kind of Features.def: LANGUAGE_FEATURE,
\* SUPPRESSIBLE_LANGUAGE_FEATURE, CONDITIONALLY_SUPPRESSIBLE_LANGUAGE_FEATURE.
Features == {"Plain", "Suppressible", "Conditional"}

EmptyFeatureSet == [required |-> {}, suppressible |-> {}]

\* No declaration exists and no getUniqueFeaturesUsed call has been made.
NoFeatureQuery ==
  /\ decls = <<>>
  /\ subject = NoDecl
  /\ enclosingDecl = NoDecl
  /\ features = EmptyFeatureSet
  /\ fphase = "idle"

\* ----------------------------------------------------------------- actions
NoQuery == [asked |-> FALSE]

NoSearch == [asked |-> FALSE]

NoWalk == [running |-> FALSE]

\* An opaque type: a single leaf.
Leaf == [kind |-> "leaf", elts |-> <<>>, deinit |-> FALSE, referenceable |-> TRUE]

\* No call on a type tree, a bit vector or a declaration has been made.
NoCalls ==
  /\ projections = [phase |-> "idle"]
  /\ filtered = [phase |-> "idle"]
  /\ contiguous = [bits |-> <<>>, visited |-> FALSE, called |-> <<>>]
  /\ matching = [phase |-> "idle", kind |-> "nominal", attr |-> {}, refs |-> {},
                 toVisit |-> <<>>, didVisit |-> {}, evaluated |-> <<>>, result |-> FALSE]

\* No projection is being computed.
NoProjection ==
  /\ rootType = Leaf
  /\ walker = "none"
  /\ base = "root"
  /\ chain = <<>>
  /\ number = 1
  /\ derived = 0
  /\ finalSubElementOffset = 0
  /\ answer = [known |-> FALSE, offset |-> 0]
  /\ tphase = "idle"

Init ==
  /\ succs \in CFGs
  /\ variant \in {"SSA", "MultiDef"}
  /\ defs = {}
  /\ live = EmptyBlocks.live
  /\ discovered = EmptyBlocks.discovered
  /\ users = NoUsers
  /\ nOps = 0
  /\ phase = "defs"
  /\ boundary = EmptyBoundary
  /\ calls = "none"
  /\ query = NoQuery
  /\ search = NoSearch
  /\ wl = NoWalk
  /\ NoProjection
  /\ NoFeatureQuery
  /\ NoCalls

BlocksState == [live |-> live, discovered |-> discovered]

Tracker == [st |-> BlocksState, users |-> users]

\* Definitions are registered in program order: block by block, the argument
\* before the instructions.
ProgramOrder(m, n) == m[1] < n[1] \/ (m[1] = n[1] /\ m[2] < n[2])

\* initializeDef(def, range) of either live range; a single-definition range
\* takes one definition and is then ready for uses.
InitializeDef(node, range) ==
  /\ phase = "defs"
  /\ nOps < MaxOps
  /\ variant = "SSA" => defs = {}
  /\ \A d \in defs : ProgramOrder(d[1], node)
  /\ LET st == initializeDefBlock(BlocksState, node[1], range)
     IN /\ live' = st.live
        /\ discovered' = st.discovered
  /\ defs' = defs \cup {<<node, range>>}
  /\ phase' = IF variant = "SSA" THEN "uses" ELSE "defs"
  /\ nOps' = nOps + 1
  /\ UNCHANGED <<succs, variant, users, boundary, calls, query>>
  /\ UNCHANGED <<search, wl, typeVars, featureVars, callVars>>

FinishedInitializationOfDefs ==
  /\ phase = "defs"
  /\ variant = "MultiDef"
  /\ defs # {}
  /\ phase' = "uses"
  /\ UNCHANGED <<succs, variant, defs, live, discovered, users, nOps, boundary, calls, query>>
  /\ UNCHANGED <<search, wl, typeVars, featureVars, callVars>>

Recorded(t) ==
  /\ live' = t.st.live
  /\ discovered' = t.st.discovered
  /\ users' = t.users
  /\ nOps' = nOps + 1
  /\ phase' = "uses"
  /\ boundary' = EmptyBoundary
  /\ calls' = "none"
  /\ query' = NoQuery
  /\ UNCHANGED <<succs, variant, defs>>
  /\ UNCHANGED <<search, wl, typeVars, featureVars, callVars>>

\* A live range with a single definition has no use at or above that
\* definition in the definition's block.
BelowSSADef(user) ==
  variant = "SSA" => \A d \in defs : d[1][1] = user[1] => d[1][2] < user[2]

UpdateForUse(user, range, lifetimeEnding) ==
  /\ phase \in {"uses", "boundary"}
  /\ nOps < MaxOps
  /\ BelowSSADef(user)
  /\ Recorded(rangeUpdateForUse(variant, defs, Tracker, user, range, lifetimeEnding))

ExtendToNonUse(user, range) ==
  /\ phase \in {"uses", "boundary"}
  /\ nOps < MaxOps
  /\ BelowSSADef(user)
  /\ Recorded(rangeExtendToNonUse(variant, defs, Tracker, user, range))

\* Variant: every call is handed the boundary of the call before.
ComputeBoundary_SameBoundary(fresh) ==
  /\ \/ phase = "uses" /\ fresh
     \/ phase = "boundary" /\ calls = "once"
  /\ LET b == computeBoundary(variant, defs, BlocksState, users, boundary)
     IN IF b.ok THEN boundary' = b /\ phase' = "boundary"
        ELSE boundary' = EmptyBoundary /\ phase' = "halted"
  /\ calls' = IF phase = "uses" THEN "once"
              ELSE IF fresh THEN "twiceEmpty" ELSE "twiceFilled"
  /\ query' = NoQuery
  /\ UNCHANGED <<succs, variant, defs, live, discovered, users, nOps>>
  /\ UNCHANGED <<search, wl, typeVars, featureVars, callVars>>

\* computeBoundary(boundary).  The first call after a change of the
\* liveness is handed a newly constructed boundary; a second call is handed
\* another new one (fresh) or the one the first call filled.  An
\* llvm_unreachable or a failed assertion stops the analysis without a result.
ComputeBoundary(fresh) ==
  /\ \/ phase = "uses" /\ fresh
     \/ phase = "boundary" /\ calls = "once"
  /\ LET into == IF fresh THEN EmptyBoundary ELSE boundary
         b == computeBoundary(variant, defs, BlocksState, users, into)
     IN IF b.ok THEN boundary' = b /\ phase' = "boundary"
        ELSE boundary' = EmptyBoundary /\ phase' = "halted"
  /\ calls' = IF phase = "uses" THEN "once"
              ELSE IF fresh THEN "twiceEmpty" ELSE "twiceFilled"
  /\ query' = NoQuery
  /\ UNCHANGED <<succs, variant, defs, live, discovered, users, nOps>>
  /\ UNCHANGED <<search, wl, typeVars, featureVars, callVars>>

\* isWithinBoundary(inst, span), asked of the liveness as it stands; query
\* keeps one call and its result until the liveness changes.
IsWithinBoundary(inst, span) ==
  /\ phase \in {"uses", "boundary"}
  /\ ~query.asked
  /\ query' = [asked |-> TRUE, inst |-> inst, span |-> span,
               result |-> isWithinBoundary(defs, BlocksState, users, inst, span)]
  /\ UNCHANGED <<succs, variant, defs, live, discovered, users, nOps, phase, boundary, calls>>
  /\ UNCHANGED <<search, wl, typeVars, featureVars, callVars>>

\* Spec: whole-value analyses, every call on the leaf range [0, 1).
LeafZero == {<<0, 1>>}

Next ==
  \/ \E node \in Nodes, range \in LeafZero : InitializeDef(node, range)
  \/ FinishedInitializationOfDefs
  \/ \E user \in Insts, range \in LeafZero, lifetimeEnding \in BOOLEAN :
       UpdateForUse(user, range, lifetimeEnding)
  \/ \E user \in Insts, range \in LeafZero : ExtendToNonUse(user, range)
  \/ \E fresh \in BOOLEAN : ComputeBoundary(fresh)

Spec == Init /\ [][Next]_vars

\* SpecQuery: analyses of a two-leaf value in a function with a loop, with
\* isWithinBoundary asked after any number of recorded uses.  Definitions and
\* uses cover the first leaf or the whole value.
QueryRanges == {r \in NonEmptyRanges : RangeContains(r, TrackedBit)}

InitQuery == Init /\ succs = SelfLoop

NextQuery ==
  \/ \E node \in Nodes, range \in QueryRanges : InitializeDef(node, range)
  \/ FinishedInitializationOfDefs
  \/ \E user \in Insts, range \in QueryRanges : UpdateForUse(user, range, FALSE)
  \/ \E user \in Insts, range \in QueryRanges : ExtendToNonUse(user, range)
  \/ \E inst \in Insts, span \in Ranges : IsWithinBoundary(inst, span)

SpecQuery == InitQuery /\ [][NextQuery]_vars

\* SpecFields: single-definition analyses of a two-leaf value.  The
\* definition covers the whole value, each use one leaf or both.
WholeValue == {r \in Ranges : \A bit \in Bits : RangeContains(r, bit)}

InitFields == Init /\ variant = "SSA"

NextFields ==
  \/ \E node \in Nodes, range \in WholeValue : InitializeDef(node, range)
  \/ \E user \in Insts, range \in NonEmptyRanges, lifetimeEnding \in BOOLEAN :
       UpdateForUse(user, range, lifetimeEnding)
  \/ ComputeBoundary(TRUE)

SpecFields == InitFields /\ [][NextFields]_vars

\* ------------------------------- computeScalarUseBlockLiveness, step by step
\* updateForUse(user, [0, 1), lifetimeEnding) up to the first pop of
\* computeScalarUseBlockLiveness; a use in a block that is live already, and
\* not before the block's definitions, is recorded without a walk.
BeginUpdateForUse(user, lifetimeEnding) ==
  /\ phase = "uses"
  /\ nOps < MaxOps
  /\ BelowSSADef(user)
  /\ LET range == <<TrackedBit, TrackedBit + 1>>
         isUseBeforeDef == TrackedBit \in useBeforeDefBitsOf(variant, defs, user, range)
         cur == getBlockLiveness(BlocksState, user[1], TrackedBit)
         marked == markBlockLive(BlocksState, user[1], TrackedBit, "LiveWithin")
     IN IF cur \in {"LiveOut", "LiveWithin"} /\ ~isUseBeforeDef
        THEN Recorded([st |-> BlocksState,
                       users |-> addInterestingUser(users, user, range, lifetimeEnding)])
        ELSE /\ live' = marked.live
             /\ discovered' = marked.discovered
             /\ wl' = [running |-> TRUE, user |-> user, lifetimeEnding |-> lifetimeEnding,
                       bitNo |-> TrackedBit, worklist |-> <<user[1]>>,
                       visited |-> {user[1]}, popped |-> <<>>]
             /\ phase' = "walking"
             /\ UNCHANGED <<succs, variant, defs, users, nOps, boundary, calls, query>>
             /\ UNCHANGED <<search, typeVars, featureVars, callVars>>

\* One iteration of while (auto *block = worklist.pop()).
PopBlock ==
  /\ phase = "walking"
  /\ wl.worklist # <<>>
  /\ LET block == wl.worklist[Len(wl.worklist)]
         rest == [st |-> BlocksState,
                  worklist |-> SubSeq(wl.worklist, 1, Len(wl.worklist) - 1),
                  visited |-> wl.visited]
         w == markPredecessors(rest, SortedSeq(Preds(block)), wl.bitNo)
     IN /\ live' = w.st.live
        /\ discovered' = w.st.discovered
        /\ wl' = [wl EXCEPT !.worklist = w.worklist, !.visited = w.visited,
                            !.popped = Append(@, block)]
  /\ UNCHANGED <<succs, variant, defs, users, nOps, phase, boundary, calls, query>>
  /\ UNCHANGED <<search, typeVars, featureVars, callVars>>

\* worklist.pop() returns no block: computeScalarUseBlockLiveness returns and
\* updateForUse records the user.
WorklistEmpty ==
  /\ phase = "walking"
  /\ wl.worklist = <<>>
  /\ users' = addInterestingUser(users, wl.user, <<wl.bitNo, wl.bitNo + 1>>, wl.lifetimeEnding)
  /\ nOps' = nOps + 1
  /\ phase' = "uses"
  /\ wl' = NoWalk
  /\ UNCHANGED <<succs, variant, defs, live, discovered, boundary, calls, query>>
  /\ UNCHANGED <<search, typeVars, featureVars, callVars>>

NextWorklist ==
  \/ \E node \in Nodes, range \in LeafZero : InitializeDef(node, range)
  \/ FinishedInitializationOfDefs
  \/ \E user \in Insts : BeginUpdateForUse(user, FALSE)
  \/ PopBlock
  \/ WorklistEmpty

SpecWorklist == Init /\ [][NextWorklist]_vars

\* A call of computeScalarUseBlockLiveness runs its loop until the worklist
\* is empty.
FairWorklist == SpecWorklist /\ WF_vars(PopBlock \/ WorklistEmpty)

\* ---------------------------------------------------- findEarlierConsumingUse
\* The callbacks a caller hands in, each given by the lifetime-ending uses of
\* the bit for which it returns false.
Callbacks(us, index) ==
  SUBSET {i \in Insts : isInterestingUser(us, i, index) = "LifetimeEndingUse"}

\* The scan of one block from position pos upwards, then of the block's
\* arguments: f = [called, defFound, returned, value].  called lists the
\* callback's invocations in order.
\* Variant: the scan goes on past a definition.
RECURSIVE scanForConsumingUse_PastDef(_, _, _, _, _, _, _)
scanForConsumingUse_PastDef(ds, us, block, pos, index, refused, f) ==
  IF pos < 1
  THEN IF isDef(ds, <<block, ArgPosition>>, index)
       THEN [f EXCEPT !.defFound = <<block, ArgPosition>>, !.returned = TRUE, !.value = TRUE]
       ELSE f
  ELSE IF isInterestingUser(us, <<block, pos>>, index) = "LifetimeEndingUse"
  THEN LET invoked == [f EXCEPT !.called = Append(@, <<block, pos>>)]
       IN IF <<block, pos>> \in refused
          THEN [invoked EXCEPT !.returned = TRUE, !.value = FALSE]
          ELSE scanForConsumingUse_PastDef(ds, us, block, pos - 1, index, refused, invoked)
  ELSE scanForConsumingUse_PastDef(ds, us, block, pos - 1, index, refused, f)

\* Variant: the scan of a block ends at its first lifetime-ending use.
RECURSIVE scanForConsumingUse_FirstUse(_, _, _, _, _, _, _)
scanForConsumingUse_FirstUse(ds, us, block, pos, index, refused, f) ==
  IF pos < 1
  THEN IF isDef(ds, <<block, ArgPosition>>, index)
       THEN [f EXCEPT !.defFound = <<block, ArgPosition>>, !.returned = TRUE, !.value = TRUE]
       ELSE f
  ELSE IF isDef(ds, <<block, pos>>, index)
  THEN [f EXCEPT !.defFound = <<block, pos>>, !.returned = TRUE, !.value = TRUE]
  ELSE IF isInterestingUser(us, <<block, pos>>, index) = "LifetimeEndingUse"
  THEN LET invoked == [f EXCEPT !.called = Append(@, <<block, pos>>)]
       IN IF <<block, pos>> \in refused
          THEN [invoked EXCEPT !.returned = TRUE, !.value = FALSE]
          ELSE invoked
  ELSE scanForConsumingUse_FirstUse(ds, us, block, pos - 1, index, refused, f)

\* Variant: a callback that returns false does not end the search.
RECURSIVE scanForConsumingUse_KeepGoing(_, _, _, _, _, _, _)
scanForConsumingUse_KeepGoing(ds, us, block, pos, index, refused, f) ==
  IF pos < 1
  THEN IF isDef(ds, <<block, ArgPosition>>, index)
       THEN [f EXCEPT !.defFound = <<block, ArgPosition>>, !.returned = TRUE, !.value = TRUE]
       ELSE f
  ELSE IF isDef(ds, <<block, pos>>, index)
  THEN [f EXCEPT !.defFound = <<block, pos>>, !.returned = TRUE, !.value = TRUE]
  ELSE IF isInterestingUser(us, <<block, pos>>, index) = "LifetimeEndingUse"
  THEN scanForConsumingUse_KeepGoing(ds, us, block, pos - 1, index, refused,
                                      [f EXCEPT !.called = Append(@, <<block, pos>>)])
  ELSE scanForConsumingUse_KeepGoing(ds, us, block, pos - 1, index, refused, f)

RECURSIVE scanForConsumingUse(_, _, _, _, _, _, _)
scanForConsumingUse(ds, us, block, pos, index, refused, f) ==
  IF pos < 1
  THEN IF isDef(ds, <<block, ArgPosition>>, index)
       THEN [f EXCEPT !.defFound = <<block, ArgPosition>>, !.returned = TRUE, !.value = TRUE]
       ELSE f
  ELSE IF isDef(ds, <<block, pos>>, index)
  THEN [f EXCEPT !.defFound = <<block, pos>>, !.returned = TRUE, !.value = TRUE]
  ELSE IF isInterestingUser(us, <<block, pos>>, index) = "LifetimeEndingUse"
  THEN LET invoked == [f EXCEPT !.called = Append(@, <<block, pos>>)]
       IN IF <<block, pos>> \in refused
          THEN [invoked EXCEPT !.returned = TRUE, !.value = FALSE]
          ELSE scanForConsumingUse(ds, us, block, pos - 1, index, refused, invoked)
  ELSE scanForConsumingUse(ds, us, block, pos - 1, index, refused, f)

\* worklist.pushIfNotVisited for each block of a sequence.
RECURSIVE pushIfNotVisited(_, _)
pushIfNotVisited(w, blocks) ==
  IF blocks = <<>> THEN w
  ELSE LET block == Head(blocks)
           pushed == IF block \in w.visited THEN w
                     ELSE [w EXCEPT !.worklist = Append(@, block), !.visited = @ \cup {block}]
       IN pushIfNotVisited(pushed, Tail(blocks))

\* while (auto *next = worklist.pop()): w = [worklist, visited, popped, f].
RECURSIVE searchPredecessors(_, _, _, _, _)
searchPredecessors(ds, us, index, refused, w) ==
  IF w.worklist = <<>> THEN [w EXCEPT !.f.returned = TRUE, !.f.value = TRUE]
  ELSE
    LET next == w.worklist[Len(w.worklist)]
        rest == [w EXCEPT !.worklist = SubSeq(@, 1, Len(@) - 1),
                          !.popped = Append(@, next)]
        f == scanForConsumingUse(ds, us, next, LastPosition, index, refused, w.f)
    IN IF f.returned THEN [rest EXCEPT !.f = f]
       ELSE searchPredecessors(ds, us, index, refused,
                               pushIfNotVisited([rest EXCEPT !.f = f], SortedSeq(Preds(next))))

NothingFound == [called |-> <<>>, defFound |-> <<>>, returned |-> FALSE, value |-> FALSE]

findEarlierConsumingUse(ds, us, inst, index, refused) ==
  LET f == scanForConsumingUse(ds, us, inst[1], inst[2] - 1, index, refused, NothingFound)
      w == [worklist |-> <<>>, visited |-> {}, popped |-> <<>>, f |-> f]
  IN IF f.returned THEN w
     ELSE searchPredecessors(ds, us, index, refused,
                             pushIfNotVisited(w, SortedSeq(Preds(inst[1]))))

\* findEarlierConsumingUse(inst, index, callback) on a live range with
\* several definitions; search keeps the call and what it did.
FindEarlierConsumingUse(inst, index, refused) ==
  /\ phase = "uses"
  /\ variant = "MultiDef"
  /\ LET w == findEarlierConsumingUse(defs, users, inst, index, refused)
     IN search' = [asked |-> TRUE, inst |-> inst, index |-> index, refused |-> refused,
                   value |-> w.f.value, called |-> w.f.called, defFound |-> w.f.defFound,
                   popped |-> w.popped]
  /\ phase' = "searched"
  /\ UNCHANGED <<succs, variant, defs, live, discovered, users, nOps, boundary, calls, query>>
  /\ UNCHANGED <<wl, typeVars, featureVars, callVars>>

\* SpecSearch: a live range with several definitions of a one-leaf value,
\* its uses recorded, then searched once.
InitSearch == Init /\ variant = "MultiDef"

NextSearch ==
  \/ \E node \in Nodes, range \in LeafZero : InitializeDef(node, range)
  \/ FinishedInitializationOfDefs
  \/ \E user \in Insts, range \in LeafZero, lifetimeEnding \in BOOLEAN :
       UpdateForUse(user, range, lifetimeEnding)
  \/ \E inst \in Insts, refused \in Callbacks(users, TrackedBit) :
       FindEarlierConsumingUse(inst, TrackedBit, refused)

SpecSearch == InitSearch /\ [][NextSearch]_vars

\* ------------------------------------------------------- TypeSubElementCount
\* A type: its kind, its elements (tuple elements, stored properties, or enum
\* cases, each case with or without associated values), whether it has a
\* deinit, and whether all of its storage is referenceable from Swift.
Elt(t) == [has |-> TRUE, type |-> t]

NoPayload == [has |-> FALSE, type |-> Leaf]

FieldCounts == {0, 1, 2}

SeqsOf(S) == UNION {[1..n -> S] : n \in FieldCounts}

TupleOf(elts) == [kind |-> "tuple", elts |-> elts, deinit |-> FALSE, referenceable |-> TRUE]

StructOf(elts, deinit, referenceable) ==
  [kind |-> "struct", elts |-> elts, deinit |-> deinit, referenceable |-> referenceable]

EnumOf(cases) == [kind |-> "enum", elts |-> cases, deinit |-> FALSE, referenceable |-> TRUE]

\* The tuples, structs and enums whose element types come from S.
Aggregates(S) ==
  LET fields == SeqsOf({Elt(t) : t \in S})
      cases == SeqsOf({Elt(t) : t \in S} \cup {NoPayload})
  IN {TupleOf(f) : f \in fields}
     \cup {StructOf(f, d, r) : f \in fields, d \in BOOLEAN, r \in BOOLEAN}
     \cup {EnumOf(c) : c \in cases}

Unit == TupleOf(<<>>)

Pair == TupleOf(<<Elt(Leaf), Elt(Leaf)>>)

EmptyStruct == StructOf(<<>>, FALSE, TRUE)

DeinitStruct == StructOf(<<Elt(Leaf)>>, TRUE, TRUE)

ForeignStruct == StructOf(<<Elt(Leaf), Elt(Leaf)>>, FALSE, FALSE)

OptionalLeaf == EnumOf(<<NoPayload, Elt(Leaf)>>)

\* The element types of the nested types.
InnerTypes == {Leaf, Unit, Pair, EmptyStruct, DeinitStruct, ForeignStruct, OptionalLeaf}

Types == {Leaf} \cup Aggregates({Leaf}) \cup Aggregates(InnerTypes)

getFullyReferenceableStruct(type) == type.kind = "struct" /\ type.referenceable

RECURSIVE TypeSubElementCount(_)
RECURSIVE sumOfCounts(_, _)
RECURSIVE maxOfPayloads(_, _)

\* The sum of the counts of the first n elements.
sumOfCounts(elts, n) ==
  IF n = 0 THEN 0
  ELSE sumOfCounts(elts, n - 1) + TypeSubElementCount(elts[n].type)

\* The largest count among the first n cases that have associated values.
maxOfPayloads(cases, n) ==
  IF n = 0 THEN 0
  ELSE LET numElements == maxOfPayloads(cases, n - 1)
           elt == TypeSubElementCount(cases[n].type)
       IN IF ~cases[n].has THEN numElements
          ELSE IF elt > numElements THEN elt ELSE numElements

\* TypeSubElementCount without the bit of a deinit's 'self'.
TypeSubElementCount_NoSelfBit(type) ==
  IF type.kind = "tuple" THEN sumOfCounts(type.elts, Len(type.elts))
  ELSE IF getFullyReferenceableStruct(type)
  THEN LET numElements == sumOfCounts(type.elts, Len(type.elts))
       IN IF numElements = 0 THEN 1 ELSE numElements
  ELSE IF type.kind = "enum" THEN maxOfPayloads(type.elts, Len(type.elts)) + 1
  ELSE 1

TypeSubElementCount(type) ==
  IF type.kind = "tuple" THEN sumOfCounts(type.elts, Len(type.elts))
  ELSE IF getFullyReferenceableStruct(type)
  THEN LET numElements == sumOfCounts(type.elts, Len(type.elts))
           withSelf == IF type.deinit THEN numElements + 1 ELSE numElements
       IN IF withSelf = 0 THEN 1 ELSE withSelf
  ELSE IF type.kind = "enum" THEN maxOfPayloads(type.elts, Len(type.elts)) + 1
  ELSE 1

\* ---------------------------------------------------------- SubElementOffset
\* The instructions each walk looks through without adding to the offset.
AddressWrappers ==
  {"project_box", "begin_access", "store_borrow", "moveonlywrapper_to_copyable_addr"}

ValueWrappers == {"begin_borrow", "copy_value", "moveonlywrapper_to_copyable"}

Wrappers(w) == IF w = "address" THEN AddressWrappers ELSE ValueWrappers

TupleProjections(w) ==
  IF w = "address" THEN {"tuple_element_addr"} ELSE {"tuple_extract", "destructure_tuple"}

StructProjections(w) ==
  IF w = "address" THEN {"struct_element_addr"} ELSE {"struct_extract", "destructure_struct"}

EnumProjections(w) ==
  IF w = "address" THEN {"unchecked_take_enum_data_addr", "init_enum_data_addr"}
  ELSE {"unchecked_enum_data"}

\* Instructions neither walk knows; begin_cow_mutation is a result of a
\* MultipleValueInstruction that is no destructure.
Unrecognised(w) ==
  IF w = "address" THEN {"index_addr"} ELSE {"unchecked_bitwise_cast", "begin_cow_mutation"}

\* An instruction of a chain: its kind, the field, element or case it
\* projects (0 when it projects none), and the type of its operand.
Inst(kind, index, operandType) == [kind |-> kind, index |-> index, operandType |-> operandType]

\* The type of the value an instruction produces.
ResultType(inst) ==
  IF inst.index = 0 THEN inst.operandType ELSE inst.operandType.elts[inst.index].type

\* The type of the value at the end of the chain.
DerivedType == IF chain = <<>> THEN rootType ELSE ResultType(chain[Len(chain)])

\* The instructions that can take a value of type t as operand.
InstsOn(w, t) ==
  {Inst(k, 0, t) : k \in Wrappers(w) \cup Unrecognised(w)}
  \cup {Inst(k, i, t) : k \in (IF t.kind = "tuple" THEN TupleProjections(w) ELSE {}),
                         i \in 1..Len(t.elts)}
  \cup {Inst(k, i, t) : k \in (IF t.kind = "struct" THEN StructProjections(w) ELSE {}),
                         i \in 1..Len(t.elts)}
  \cup {Inst(k, i, t) : k \in (IF t.kind = "enum" THEN EnumProjections(w) ELSE {}),
                         i \in {c \in 1..Len(t.elts) : t.elts[c].has}}

\* Longest chain of instructions between the base and the derived value.
MaxChain == 2

\* The longest bit vector handed to visitContiguousRanges.
MaxBits == 6

\* The largest start offset of a range handed to constructFilteredProjections.
MaxStart == 2

\* The largest number of leaves of a root value whose projections are built.
MaxLeaves == 5

\* The number of type references among the declarations usesTypeDeclMatching
\* walks over.
MaxRefs == 2

NoAnalysis ==
  /\ succs = Chain
  /\ variant = "SSA"
  /\ defs = {}
  /\ live = EmptyBlocks.live
  /\ discovered = EmptyBlocks.discovered
  /\ users = NoUsers
  /\ nOps = 0
  /\ phase = "defs"
  /\ boundary = EmptyBoundary
  /\ calls = "none"
  /\ query = NoQuery
  /\ search = NoSearch
  /\ wl = NoWalk

InitProjection ==
  /\ NoAnalysis
  /\ NoFeatureQuery
  /\ NoCalls
  /\ rootType \in Types
  /\ walker \in {"address", "value"}
  /\ base \in {"root", "other"}
  /\ chain = <<>>
  /\ number = 0
  /\ derived = 0
  /\ finalSubElementOffset = 0
  /\ answer = [known |-> FALSE, offset |-> 0]
  /\ tphase = "typed"

\* TypeSubElementCount(rootType).
CountSubElements ==
  /\ tphase = "typed"
  /\ number' = TypeSubElementCount(rootType)
  /\ tphase' = "counted"
  /\ UNCHANGED <<rootType, walker, base, chain, derived, finalSubElementOffset, answer>>
  /\ UNCHANGED <<liveVars, search, wl, featureVars, callVars>>

\* The function under analysis derives one more value from the last one.
Project(inst) ==
  /\ tphase = "counted"
  /\ Len(chain) < MaxChain
  /\ chain' = Append(chain, inst)
  /\ UNCHANGED <<rootType, walker, base, number, derived, finalSubElementOffset, answer, tphase>>
  /\ UNCHANGED <<liveVars, search, wl, featureVars, callVars>>

\* computeForAddress / computeForValue is called on the derived value.
Compute ==
  /\ tphase = "counted"
  /\ derived' = Len(chain)
  /\ finalSubElementOffset' = 0
  /\ tphase' = "walking"
  /\ UNCHANGED <<rootType, walker, base, chain, number, answer>>
  /\ UNCHANGED <<liveVars, search, wl, featureVars, callVars>>

Return(a) ==
  /\ answer' = a
  /\ tphase' = "done"
  /\ UNCHANGED <<rootType, walker, base, chain, number, derived, finalSubElementOffset>>
  /\ UNCHANGED <<liveVars, search, wl, featureVars, callVars>>

Continue(added) ==
  /\ derived' = derived - 1
  /\ finalSubElementOffset' = finalSubElementOffset + added
  /\ UNCHANGED <<rootType, walker, base, chain, number, answer, tphase>>
  /\ UNCHANGED <<liveVars, search, wl, featureVars, callVars>>

AtRoot == derived = 0 /\ base = "root"

AtInst(kinds) == derived > 0 /\ chain[derived].kind \in kinds

\* if (rootAddress == projectionDerivedFromRoot) return offset
ReachedRoot ==
  /\ tphase = "walking"
  /\ AtRoot
  /\ Return([known |-> TRUE, offset |-> finalSubElementOffset])

LookThrough ==
  /\ tphase = "walking"
  /\ AtInst(Wrappers(walker))
  /\ Continue(0)

\* The counts of the elements before the projected one are added.
TupleElement ==
  /\ tphase = "walking"
  /\ AtInst(TupleProjections(walker))
  /\ Continue(sumOfCounts(chain[derived].operandType.elts, chain[derived].index - 1))

StructElement ==
  /\ tphase = "walking"
  /\ AtInst(StructProjections(walker))
  /\ Continue(sumOfCounts(chain[derived].operandType.elts, chain[derived].index - 1))

\* EnumData with the discriminator laid out before the payload.
EnumData_DiscriminatorFirst ==
  /\ tphase = "walking"
  /\ AtInst(EnumProjections(walker))
  /\ Continue(1)

\* The payload starts where the enum starts.
EnumData ==
  /\ tphase = "walking"
  /\ AtInst(EnumProjections(walker))
  /\ Continue(0)

\* NotUnderstood returning the offset summed so far.
NotUnderstood_OffsetSoFar ==
  /\ tphase = "walking"
  /\ ~AtRoot
  /\ ~AtInst(Wrappers(walker) \cup TupleProjections(walker) \cup StructProjections(walker)
             \cup EnumProjections(walker))
  /\ Return([known |-> TRUE, offset |-> finalSubElementOffset])

\* return llvm::None
NotUnderstood ==
  /\ tphase = "walking"
  /\ ~AtRoot
  /\ ~AtInst(Wrappers(walker) \cup TupleProjections(walker) \cup StructProjections(walker)
             \cup EnumProjections(walker))
  /\ Return([known |-> FALSE, offset |-> 0])

NextProjection ==
  \/ CountSubElements
  \/ \E inst \in InstsOn(walker, DerivedType) : Project(inst)
  \/ Compute
  \/ ReachedRoot
  \/ LookThrough
  \/ TupleElement
  \/ StructElement
  \/ EnumData
  \/ NotUnderstood

SpecProjection == InitProjection /\ [][NextProjection]_vars

\* A step of the loop of computeForAddress / computeForValue.
WalkStep ==
  ReachedRoot \/ LookThrough \/ TupleElement \/ StructElement \/ EnumData \/ NotUnderstood

\* SpecWalk: walks over the chains of a few roots that offer every kind of
\* instruction, at the root and one projection below it.
WalkRoots ==
  InnerTypes \cup {StructOf(<<Elt(Pair), Elt(OptionalLeaf)>>, FALSE, TRUE),
                   TupleOf(<<Elt(DeinitStruct), Elt(OptionalLeaf)>>),
                   EnumOf(<<Elt(Pair), Elt(ForeignStruct)>>)}

InitWalk == InitProjection /\ rootType \in WalkRoots

SpecWalk == InitWalk /\ [][NextProjection]_vars

\* A call of computeForAddress / computeForValue runs its loop until it returns.
FairWalk == SpecWalk /\ WF_vars(WalkStep)

\* ---------------------------------------------------- getUniqueFeaturesUsed
usesFeature(decl, feature) == feature \in decls[decl].uses

\* required.insertOrRemove(feature, operation == Insert).
collectRequiredFeature(fs, feature, operation) ==
  [fs EXCEPT !.required = IF operation = "Insert" THEN @ \cup {feature} ELSE @ \ {feature}]

collectSuppressibleFeature(fs, feature, operation) ==
  [fs EXCEPT !.suppressible = IF operation = "Insert" THEN @ \cup {feature} ELSE @ \ {feature}]

shouldSuppressFeature(feature, decl) == feature \in decls[decl].suppressed

\* The expansion of one entry of Features.def in collectFeaturesUsed.
collectFeature(fs, decl, feature, operation) ==
  IF ~usesFeature(decl, feature) THEN fs
  ELSE CASE feature = "Plain" -> collectRequiredFeature(fs, feature, operation)
         [] feature = "Suppressible" -> collectSuppressibleFeature(fs, feature, operation)
         [] feature = "Conditional" ->
              IF shouldSuppressFeature(feature, decl)
              THEN collectSuppressibleFeature(fs, feature, operation)
              ELSE collectRequiredFeature(fs, feature, operation)

\* Features.def is expanded once for each feature, whatever the order.
collectFeaturesUsed(fs, decl, operation) ==
  collectFeature(collectFeature(collectFeature(fs, decl, "Plain", operation),
                                decl, "Suppressible", operation),
                 decl, "Conditional", operation)

isEmpty(fs) == fs.required = {} /\ fs.suppressible = {}

\* The next outermost enclosing declaration: the storage of an accessor, the
\* declaration of the declaration context otherwise.
nextEnclosingDecl(decl) ==
  IF decls[decl].accessor THEN decls[decl].storage ELSE decls[decl].context

\* The module gets one more declaration: an accessor of an earlier
\* declaration, which shares its storage's context, or a declaration whose
\* context is an earlier declaration or no declaration at all.  It uses any
\* of the features and may carry an attribute that allows the suppression of
\* the conditionally suppressible ones.
Declare(accessor, enclosing, uses, suppressed) ==
  /\ fphase = "idle"
  /\ Len(decls) < Cardinality(Decls)
  /\ enclosing \in {NoDecl} \cup (1..Len(decls))
  /\ accessor => enclosing # NoDecl /\ ~decls[enclosing].accessor
  /\ decls' = Append(decls,
                     [accessor |-> accessor,
                      storage |-> IF accessor THEN enclosing ELSE NoDecl,
                      context |-> IF accessor THEN decls[enclosing].context ELSE enclosing,
                      uses |-> uses,
                      suppressed |-> suppressed])
  /\ UNCHANGED <<subject, enclosingDecl, features, fphase, liveVars, search, wl, typeVars, callVars>>

\* The start of getUniqueFeaturesUsed(decl).
GetUniqueFeaturesUsed(decl) ==
  /\ fphase = "idle"
  /\ decl \in 1..Len(decls)
  /\ subject' = decl
  /\ features' = collectFeaturesUsed(EmptyFeatureSet, decl, "Insert")
  /\ enclosingDecl' = decl
  /\ fphase' = "walking"
  /\ UNCHANGED <<decls, liveVars, search, wl, typeVars, callVars>>

\* One iteration of the loop that finds an enclosing declaration.
RemoveEnclosing ==
  /\ fphase = "walking"
  /\ ~isEmpty(features)
  /\ nextEnclosingDecl(enclosingDecl) # NoDecl
  /\ enclosingDecl' = nextEnclosingDecl(enclosingDecl)
  /\ features' = collectFeaturesUsed(features, enclosingDecl', "Remove")
  /\ UNCHANGED <<decls, subject, fphase, liveVars, search, wl, typeVars, callVars>>

\* The iteration that finds no enclosing declaration leaves the loop.
NoEnclosingDecl ==
  /\ fphase = "walking"
  /\ ~isEmpty(features)
  /\ nextEnclosingDecl(enclosingDecl) = NoDecl
  /\ enclosingDecl' = NoDecl
  /\ fphase' = "done"
  /\ UNCHANGED <<decls, subject, features, liveVars, search, wl, typeVars, callVars>>

\* The loop ends as soon as the set is empty.
NoFeaturesLeft ==
  /\ fphase = "walking"
  /\ isEmpty(features)
  /\ fphase' = "done"
  /\ UNCHANGED <<decls, subject, enclosingDecl, features, liveVars, search, wl, typeVars, callVars>>

InitFeatures == NoAnalysis /\ NoProjection /\ NoFeatureQuery /\ NoCalls

NextFeatures ==
  \/ \E accessor \in BOOLEAN, enclosing \in {NoDecl} \cup Decls :
       \E uses \in SUBSET Features, suppressed \in SUBSET {"Conditional"} :
         Declare(accessor, enclosing, uses, suppressed)
  \/ \E decl \in Decls : GetUniqueFeaturesUsed(decl)
  \/ RemoveEnclosing
  \/ NoEnclosingDecl
  \/ NoFeaturesLeft

SpecFeatures == InitFeatures /\ [][NextFeatures]_vars

\* ------------------------------------------------------------------ claims

\* C1: over any sequence of definition initialisations, updateForUse calls and
\* extendToNonUse calls, the state of every (block, bit) pair never decreases
\* in the order Dead < LiveWithin < LiveOut (so it changes at most twice).
C1_Monotonic ==
  [][\A block \in Blocks, bit \in Bits : Rank(live[block][bit]) <= Rank(live'[block][bit])]_vars

\* A definition block that a later use has raised from LiveWithin to LiveOut.
C1_Witness ==
  \E block \in Blocks :
    /\ isDefBlock(defs, block, TrackedBit)
    /\ live[block][TrackedBit] = "LiveOut"

\* What C2 calls live: a recorded use of the bit is reached from the entry of
\* block with no definition of the bit executed before it.  A use that sits
\* on a definition reads the value before the definition writes it.
UpwardExposedUse(block, bit) ==
  \E p \in InstPositions :
    /\ isRecorded(users, <<block, p>>, bit)
    /\ \A q \in ({ArgPosition} \cup InstPositions) : q < p => ~isDef(defs, <<block, q>>, bit)

RECURSIVE LiveInBlocks(_, _, _)
LiveInBlocks(found, bit, rounds) ==
  IF rounds = 0 THEN found
  ELSE LiveInBlocks(found \cup {b \in Blocks : ~isDefBlock(defs, b, bit) /\ succs[b] \cap found # {}},
                    bit, rounds - 1)

LiveIn(bit) == LiveInBlocks({b \in Blocks : UpwardExposedUse(b, bit)}, bit, Cardinality(Blocks))

\* liveIn: the blocks at whose entry the bit is live.
UseReachableFromSuccessor(block, liveIn) == succs[block] \cap liveIn # {}

LiveInside(block, bit, liveIn) ==
  \/ isDefBlock(defs, block, bit)
  \/ \E p \in InstPositions : isRecorded(users, <<block, p>>, bit)
  \/ UseReachableFromSuccessor(block, liveIn)

FixpointAt(block, bit, liveIn) ==
  /\ live[block][bit] = "LiveOut" <=> UseReachableFromSuccessor(block, liveIn)
  /\ live[block][bit] = "LiveWithin" <=>
       (LiveInside(block, bit, liveIn) /\ ~UseReachableFromSuccessor(block, liveIn))

\* C2: once the definitions are initialised and the uses recorded, a block
\* is LiveOut for a bit exactly when a recorded use of the bit is reachable
\* from one of its successors with no definition of the bit executed before
\* the use, and LiveWithin exactly when the bit is live somewhere inside the
\* block and the block is not LiveOut for it.
C2_Fixpoint ==
  phase # "defs" =>
    \A bit \in Bits :
      LET liveIn == LiveIn(bit)
      IN \A block \in Blocks : FixpointAt(block, bit, liveIn)

\* A use above the definition in a multi-definition block with a predecessor:
\* the predecessor is LiveOut, the block itself LiveWithin.
C2_Witness ==
  /\ variant = "MultiDef"
  /\ phase = "uses"
  /\ \E block \in Blocks, pred \in Blocks :
       /\ block \in succs[pred]
       /\ pred # block
       /\ isDefBlock(defs, block, TrackedBit)
       /\ UpwardExposedUse(block, TrackedBit)
       /\ live[pred][TrackedBit] = "LiveOut"
       /\ live[block][TrackedBit] = "LiveWithin"

\* -------------------------------------------- paths through the function
\* Execution runs through a block's argument and instructions in order and
\* then enters a successor.
Step(n) ==
  IF n[2] < LastPosition THEN {<<n[1], n[2] + 1>>}
  ELSE {<<s, ArgPosition>> : s \in succs[n[1]]}

\* A point where the boundary ends the bit's lifetime: a last user, a dead
\* definition, or the entry of a block flagged as boundary edge.
BoundaryPoint(n, bit) ==
  \/ <<n, bit>> \in boundary.lastUsers
  \/ <<n, bit>> \in boundary.deadDefs
  \/ n[2] = ArgPosition /\ <<n[1], bit>> \in boundary.boundaryEdges

\* The points reached from the points in found along paths that never enter
\* a point of avoid and, when through is FALSE, do not continue past a
\* boundary point of the bit.
RECURSIVE Reached(_, _, _, _, _)
Reached(found, avoid, through, bit, rounds) ==
  IF rounds = 0 THEN found
  ELSE Reached(found \cup ((UNION {Step(n) : n \in {m \in found : through \/ ~BoundaryPoint(m, bit)}})
                           \ avoid),
               avoid, through, bit, rounds - 1)

\* The points on paths from the definition d up to and including the first
\* boundary point of the bit, without executing d again.
BeforeBoundary(d, bit) == Reached({d}, {d}, FALSE, bit, Cardinality(Nodes))

\* The points strictly after a first boundary point on such paths.
AfterBoundary(d, bit) ==
  Reached((UNION {Step(n) : n \in {m \in BeforeBoundary(d, bit) : BoundaryPoint(m, bit)}}) \ {d},
          {d}, TRUE, bit, Cardinality(Nodes))

\* The points reached from d in one step or more.
ReachableFrom(d) == Reached(Step(d), {}, TRUE, TrackedBit, Cardinality(Nodes))

FunctionExit(n) == n[2] = LastPosition /\ succs[n[1]] = {}

UsesReachableFromDef(d, bit) ==
  \A u \in Insts : isRecorded(users, u, bit) => u \in ReachableFrom(d)

\* C3: no missed frees.  In the single-definition variant, when every
\* recorded use is reachable from the definition, every path from the
\* definition to the end of a block with no successors passes a boundary
\* point of each bit of the defined range.
C3_NoMissedFree ==
  (variant = "SSA" /\ phase = "boundary") =>
    \A d \in defs, bit \in Bits :
      (RangeContains(d[2], bit) /\ UsesReachableFromDef(d[1], bit)) =>
        ~\E n \in BeforeBoundary(d[1], bit) : FunctionExit(n) /\ ~BoundaryPoint(n, bit)

\* A loop: the definition's block is LiveOut, one path to the exit ends at a
\* last user and another one at a boundary edge.
C3_Witness ==
  /\ variant = "SSA"
  /\ phase = "boundary"
  /\ \E d \in defs :
       /\ UsesReachableFromDef(d[1], TrackedBit)
       /\ live[d[1][1]][TrackedBit] = "LiveOut"
       /\ d[1] \in ReachableFrom(d[1])
       /\ \E n \in BeforeBoundary(d[1], TrackedBit) : <<n, TrackedBit>> \in boundary.lastUsers
       /\ \E n \in BeforeBoundary(d[1], TrackedBit) : <<n[1], TrackedBit>> \in boundary.boundaryEdges
       /\ \E n \in ReachableFrom(d[1]) : FunctionExit(n)

OneBoundaryPoint ==
  \A d \in defs, bit \in Bits :
    RangeContains(d[2], bit) => ~\E n \in AfterBoundary(d[1], bit) : BoundaryPoint(n, bit)

\* C4 as claimed: no double frees.  In the single-definition variant, on any
\* CFG, no path that starts at the definition and does not execute it again
\* passes more than one boundary point of a bit of the defined range.
C4_Claimed == (variant = "SSA" /\ phase = "boundary") => OneBoundaryPoint

\* An edge from a block with several successors to a block with several
\* predecessors.
CriticalEdge(p, s) ==
  s \in succs[p] /\ Cardinality(succs[p]) > 1 /\ Cardinality(Preds(s)) > 1

NoCriticalEdges == ~\E p \in Blocks, s \in Blocks : CriticalEdge(p, s)

\* C4 amended: the same on any CFG without critical edges (a boundary edge
\* is recorded on the successor block, so it stands for all edges into it).
C4_NoDoubleFree ==
  (variant = "SSA" /\ phase = "boundary" /\ NoCriticalEdges) => OneBoundaryPoint

\* A cyclic CFG without critical edges where a path from the definition
\* passes a last user and goes on.
C4_Witness ==
  /\ variant = "SSA"
  /\ phase = "boundary"
  /\ NoCriticalEdges
  /\ \E d \in defs :
       /\ d[1] \in ReachableFrom(d[1])
       /\ \E n \in BeforeBoundary(d[1], TrackedBit) :
            /\ <<n, TrackedBit>> \in boundary.lastUsers
            /\ AfterBoundary(d[1], TrackedBit) # {}

\* ------------------------------------------------------ boundary contents
FactInBlock(block, bit) ==
  \/ \E p \in InstPositions : <<<<block, p>>, bit>> \in boundary.lastUsers
  \/ \E p \in {ArgPosition} \cup InstPositions : <<<<block, p>>, bit>> \in boundary.deadDefs

FactOnAdjacentEdge(block, bit) ==
  \/ <<block, bit>> \in boundary.boundaryEdges
  \/ \E s \in succs[block] : <<s, bit>> \in boundary.boundaryEdges

DiscoveredBlocks == {discovered[i] : i \in 1..Len(discovered)}

\* C5 as claimed: after computeBoundary, every discovered block that is not
\* Dead for a bit has a last-user, dead-definition or boundary-edge fact for
\* that bit in the block or on an edge adjacent to it.
C5_Claimed ==
  phase = "boundary" =>
    \A block \in DiscoveredBlocks, bit \in Bits :
      live[block][bit] # "Dead" => (FactInBlock(block, bit) \/ FactOnAdjacentEdge(block, bit))

\* C5 amended: after computeBoundary, every discovered block that is
\* LiveWithin for a bit holds a last-user or dead-definition fact for that
\* bit (a LiveOut block may have none in it or next to it).
C5_LiveWithinHasFact ==
  phase = "boundary" =>
    \A block \in DiscoveredBlocks, bit \in Bits :
      live[block][bit] = "LiveWithin" => FactInBlock(block, bit)

\* One LiveWithin block whose fact is a last user and one whose fact is a
\* dead definition.
C5_Witness ==
  /\ phase = "boundary"
  /\ \E b1 \in DiscoveredBlocks, b2 \in DiscoveredBlocks :
       /\ live[b1][TrackedBit] = "LiveWithin"
       /\ live[b2][TrackedBit] = "LiveWithin"
       /\ \E p \in InstPositions : <<<<b1, p>>, TrackedBit>> \in boundary.lastUsers
       /\ \E p \in {ArgPosition} \cup InstPositions : <<<<b2, p>>, TrackedBit>> \in boundary.deadDefs

\* C6: after computeBoundary, every Dead successor of a discovered block that
\* is LiveOut for a bit has that bit among its boundary-edge bits.
C6_BoundaryEdges ==
  phase = "boundary" =>
    \A p \in DiscoveredBlocks, bit \in Bits :
      live[p][bit] = "LiveOut" =>
        \A s \in succs[p] : live[s][bit] = "Dead" => <<s, bit>> \in boundary.boundaryEdges

C6_Witness ==
  /\ phase = "boundary"
  /\ \E p \in DiscoveredBlocks, s \in Blocks :
       /\ s \in succs[p]
       /\ live[p][TrackedBit] = "LiveOut"
       /\ live[s][TrackedBit] = "Dead"
       /\ <<s, TrackedBit>> \in boundary.boundaryEdges

BothLastUserAndDeadDef(inst, bit) ==
  <<inst, bit>> \in boundary.lastUsers /\ <<inst, bit>> \in boundary.deadDefs

\* C8 as claimed: an instruction is both a last user and a dead definition
\* for the same bit only if it is a definition of the bit and a
\* lifetime-ending use of it.
C8_Claimed ==
  phase = "boundary" =>
    \A inst \in Insts, bit \in Bits :
      BothLastUserAndDeadDef(inst, bit) =>
        (isDef(defs, inst, bit) /\ isInterestingUser(users, inst, bit) = "LifetimeEndingUse")

\* C8 amended: ... only if it is a definition of the bit and a recorded use
\* of it, lifetime-ending or not.
C8_BothOnlyIfDefAndUse ==
  phase = "boundary" =>
    \A inst \in Insts, bit \in Bits :
      BothLastUserAndDeadDef(inst, bit) =>
        (isDef(defs, inst, bit)
         /\ isInterestingUser(users, inst, bit) \in {"LifetimeEndingUse", "NonLifetimeEndingUse"})

C8_Witness ==
  /\ phase = "boundary"
  /\ \E inst \in Insts :
       /\ BothLastUserAndDeadDef(inst, TrackedBit)
       /\ isInterestingUser(users, inst, TrackedBit) = "LifetimeEndingUse"

\* C7 as claimed: a second computeBoundary without a change in between gives
\* the lastUsers, deadDefs and boundaryEdges of the first, and neither call
\* changes a block's liveness or a recorded user.
LivenessUnchanged == live' = live /\ discovered' = discovered /\ users' = users /\ defs' = defs

FirstCall == calls = "none" /\ calls' = "once"

SecondCall == calls = "once" /\ calls' \in {"twiceEmpty", "twiceFilled"}

SameResult == phase' = "boundary" /\ boundary' = boundary

LiveBelow(inst, bit) ==
  /\ ~isDef(defs, inst, bit)
  /\ \E p \in InstPositions \cup {LastPosition + 1} :
       /\ inst[2] < p
       /\ IF p \in InstPositions THEN isInteresting(users, <<inst[1], p>>, bit)
          ELSE live[inst[1]][bit] = "LiveOut"
       /\ \A q \in InstPositions : (inst[2] < q /\ q < p) => ~isDef(defs, <<inst[1], q>>, bit)

WithinFor(inst, bit) ==
  /\ live[inst[1]][bit] # "Dead"
  /\ \/ live[inst[1]][bit] = "LiveOut" /\ ~isDefBlock(defs, inst[1], bit)
     \/ LiveBelow(inst, bit)

\* C9: for a non-empty leaf range isWithinBoundary(inst, range) is true if and
\* only if, for some bit of the range, inst's block is LiveOut and not a
\* definition block of the bit, or inst lies after the nearest definition
\* above it and before the last use (or the end of a LiveOut block) with no
\* definition in between; it is false when all bits are Dead in the block.
C9_WithinBoundary ==
  (query.asked /\ ~RangeEmpty(query.span)) =>
    (query.result <=> \E bit \in RangeBits(query.span) : WithinFor(query.inst, bit))

\* A query over both leaves that is answered by one leaf alone: the other leaf is live in the
\* block but not at the instruction.
C9_Witness ==
  /\ query.asked
  /\ RangeBits(query.span) = Bits
  /\ query.result
  /\ \E bit \in Bits :
       /\ ~WithinFor(query.inst, bit)
       /\ live[query.inst[1]][bit] # "Dead"
       /\ \E other \in Bits : WithinFor(query.inst, other)

\* C10: isWithinBoundary with an empty leaf range answers true for every
\* instruction in every liveness state, does not stop the analysis and
\* changes no state.
C10_EmptyRange ==
  [][(~query.asked /\ query'.asked /\ RangeEmpty(query'.span)) =>
       (query'.result /\ LivenessUnchanged /\ phase' = phase /\ boundary' = boundary)]_vars

\* An empty range asked at an instruction in a block where every bit is Dead.
C10_Witness ==
  /\ query.asked
  /\ RangeEmpty(query.span)
  /\ query.result
  /\ \A bit \in Bits : live[query.inst[1]][bit] = "Dead"

\* ------------------------------------------------------- TypeSubElementCount
\* The root's count has been computed.
Counted == tphase # "typed"

\* The sum of the counts of a type's elements or stored fields, and one more
\* when the type has a deinit.
SumOfElements(type) ==
  sumOfCounts(type.elts, Len(type.elts)) + (IF type.deinit THEN 1 ELSE 0)

Additive(type) == type.kind = "tuple" \/ getFullyReferenceableStruct(type)

\* C11 as stated: the count of every tuple and every fully referenceable
\* struct is the sum of the counts of its elements or stored fields, plus one
\* when the type has a deinit.
C11_Claimed ==
  Counted /\ Additive(rootType) => number = SumOfElements(rootType)

\* C11, amended: the count of every tuple and every fully referenceable struct is
\* the sum of the counts of its elements or stored fields, plus one when the
\* type has a deinit, except that a struct for which that sum is 0 counts 1.
C11_Additive ==
  Counted /\ Additive(rootType) =>
    number = IF rootType.kind = "struct" /\ SumOfElements(rootType) = 0
             THEN 1
             ELSE SumOfElements(rootType)

\* A struct with a deinit and two stored fields, one of them a pair, was
\* counted: three field bits and the bit of 'self'.
C11_Witness ==
  /\ Counted
  /\ rootType = StructOf(<<Elt(Pair), Elt(Leaf)>>, TRUE, TRUE)
  /\ number = 4

\* C12 as stated: the count of every type is at least 1, and a tuple, struct
\* or enum without elements, stored fields or payloads counts exactly 1.
C12_Claimed ==
  Counted =>
    /\ number >= 1
    /\ (rootType.kind # "leaf" /\ \A i \in 1..Len(rootType.elts) : ~rootType.elts[i].has)
         => number = 1

\* --------------------------------------------------------- SubElementOffset
\* What an instruction adds to the offset of its operand: the counts of the
\* elements or stored fields declared before the one it projects.
SiblingsBefore(inst) ==
  IF inst.kind \in TupleProjections(walker) \cup StructProjections(walker)
  THEN sumOfCounts(inst.operandType.elts, inst.index - 1)
  ELSE 0

\* The offset from the root of the value the n-th instruction produces.
RECURSIVE OffsetOf(_)
OffsetOf(n) == IF n = 0 THEN 0 ELSE OffsetOf(n - 1) + SiblingsBefore(chain[n])

\* The walk returned an offset.
Known == tphase = "done" /\ answer.known

\* The counts of the payloads of an enum's cases.
PayloadCounts(type) ==
  {TypeSubElementCount(type.elts[i].type) : i \in {c \in 1..Len(type.elts) : type.elts[c].has}}

Max(S) == CHOOSE m \in S : \A n \in S : n <= m

\* The derived value is the payload of an enum case.
IsPayload == chain # <<>> /\ chain[Len(chain)].kind \in EnumProjections(walker)

\* C13: an enum with payload cases counts one more than the largest count of
\* a payload; a payload projection has the offset of the enum it projects
\* from, so the payload's range starts where the enum's starts and ends
\* before the enum's last bit.
C13_EnumLayout ==
  /\ Counted /\ rootType.kind = "enum" /\ PayloadCounts(rootType) # {}
       => number = 1 + Max(PayloadCounts(rootType))
  /\ Known /\ IsPayload =>
       LET enum == chain[Len(chain)].operandType
           enumOffset == OffsetOf(Len(chain) - 1)
       IN /\ answer.offset = enumOffset
          /\ answer.offset + TypeSubElementCount(DerivedType)
               <= enumOffset + TypeSubElementCount(enum) - 1

\* The pair payload of an enum whose other payload is a leaf was projected
\* out of the root: the enum counts 3 and the payload starts at 0.
C13_Witness ==
  /\ Known
  /\ rootType = EnumOf(<<Elt(Leaf), Elt(Pair)>>)
  /\ number = 3
  /\ IsPayload
  /\ chain[1].index = 2
  /\ answer.offset = 0

\* The walk understood the whole chain: it holds wrappers and projections only.
Understood ==
  \A n \in 1..Len(chain) :
    chain[n].kind \in Wrappers(walker) \cup TupleProjections(walker)
                       \cup StructProjections(walker) \cup EnumProjections(walker)

\* The range of the k-th element or stored field of the value the chain
\* derives, as the walk would report it one projection further down.
SiblingRange(k) ==
  LET start == answer.offset + sumOfCounts(DerivedType.elts, k - 1)
  IN [startEltOffset |-> start,
      endEltOffset |-> start + TypeSubElementCount(DerivedType.elts[k].type)]

\* C14 as stated: the offset of an understood chain is the sum of what its
\* projections add, each the counts of the siblings declared before the
\* projected one, and wrappers add nothing; the ranges of sibling fields are
\* disjoint, in declaration order, and lie within [0, count of the root).
C14_Claimed ==
  Known =>
    /\ answer.offset = OffsetOf(Len(chain))
    /\ answer.offset + TypeSubElementCount(DerivedType) <= number
    /\ DerivedType.kind \in {"tuple", "struct"} =>
         \A i, j \in 1..Len(DerivedType.elts) :
           /\ i < j => SiblingRange(i).endEltOffset <= SiblingRange(j).startEltOffset
           /\ SiblingRange(i).endEltOffset <= number

\* C15: a walk that meets a value which is neither the root nor a wrapper
\* or projection it recognises returns None; a walk returns an offset only
\* when it reached the root through instructions it recognises; and every
\* walk returns.
C15_UnknownOrRoot ==
  /\ [](tphase = "done" => (answer.known <=> base = "root" /\ Understood))
  /\ [](Known => derived = 0)
  /\ (tphase = "walking") ~> (tphase = "done")

\* A walk from a root looked through a projection, met an instruction it
\* does not recognise, and returned None.
C15_Witness ==
  /\ tphase = "done"
  /\ ~answer.known
  /\ base = "root"
  /\ Len(chain) = 2
  /\ chain[1].kind \in Unrecognised(walker)
  /\ chain[2].kind \in StructProjections(walker)
  /\ derived = 1

\* ------------------------------------------------------------ extendToNonUse
\* The instruction is recorded for the bit as a non-use only.
NonUse(inst, bit) == isRecorded(users, inst, bit) /\ ~isInteresting(users, inst, bit)

\* C16: extendToNonUse leaves the blocks as live as updateForUse of the same
\* instruction and range would, and computeBoundary never reports an
\* instruction recorded for a bit as a non-use as a last user of that bit.
C16_NonUseNotLastUser ==
  /\ [](phase = "boundary" =>
          \A inst \in Insts, bit \in Bits :
            NonUse(inst, bit) => <<inst, bit>> \notin boundary.lastUsers)
  /\ [][\A user \in Insts, range \in LeafZero :
          nOps' = nOps + 1 /\ users'[user] # users[user] /\ ExtendToNonUse(user, range) =>
            LET asUse == rangeUpdateForUse(variant, defs, Tracker, user, range, FALSE)
            IN /\ live' = asUse.st.live
               /\ discovered' = asUse.st.discovered
               /\ live'[user[1]][range[1]] # "Dead"
               /\ \A p \in Preds(user[1]) :
                    isDefBlock(defs, user[1], range[1]) \/ live'[p][range[1]] = "LiveOut"]_vars

\* A boundary was computed over a block that holds a use and, below it, a
\* non-use that made the block live: the use is the last user.
C16_Witness ==
  /\ phase = "boundary"
  /\ \E block \in Blocks :
       /\ ~isDefBlock(defs, block, TrackedBit)
       /\ live[block][TrackedBit] = "LiveWithin"
       /\ NonUse(<<block, 2>>, TrackedBit)
       /\ discovered[Len(discovered)] = block
       /\ boundary.lastUsers = {<<<<block, 1>>, TrackedBit>>}

\* ---------------------------------------------------- findEarlierConsumingUse
Searched == phase = "searched"

ConsumingUse(inst, bit) == isInterestingUser(users, inst, bit) = "LifetimeEndingUse"

\* The callback returned false in the k-th of its invocations.
Refused(k) == search.called[k] \in search.refused

\* The blocks from which the block of the searched instruction can be reached.
RECURSIVE Upstream(_, _)
Upstream(found, n) ==
  IF n = 0 THEN found
  ELSE Upstream(found \cup UNION {Preds(b) : b \in found}, n - 1)

UpstreamOfInst == Upstream(Preds(search.inst[1]), Cardinality(Blocks))

\* The block of the searched instruction lies on a cycle.
InCycle == search.inst[1] \in UpstreamOfInst

\* C17: the search returns false exactly when the callback returned false,
\* and then that invocation was the last; the callback is invoked on
\* lifetime-ending uses only; the search returns true when it found a
\* definition, and also when it found none, after it scanned every block
\* upstream of the instruction; no block is scanned twice, cycles or not.
C17_SearchResult ==
  Searched =>
    /\ search.value = FALSE <=> \E k \in 1..Len(search.called) : Refused(k)
    /\ \A k \in 1..Len(search.called) :
         /\ Refused(k) => k = Len(search.called)
         /\ ConsumingUse(search.called[k], search.index)
    /\ search.defFound # <<>> => search.value /\ isDef(defs, search.defFound, search.index)
    /\ search.value /\ search.defFound = <<>> =>
         {search.popped[k] : k \in 1..Len(search.popped)} = UpstreamOfInst
    /\ \A j, k \in 1..Len(search.popped) : search.popped[j] = search.popped[k] => j = k

\* A search went round a cycle back into the block it started in, was let go
\* on by the callback, and found no definition: it returned true.
C17_Witness ==
  /\ Searched
  /\ InCycle
  /\ search.value
  /\ search.defFound = <<>>
  /\ search.called # <<>>
  /\ \E k \in 1..Len(search.popped) : search.popped[k] = search.inst[1]

\* No definition of the bit at the positions from..to of the block.
NoDefBetween(block, from, to, bit) ==
  \A pos \in from..to : ~isDef(defs, <<block, pos>>, bit)

\* The blocks the backward walk enters from below without having crossed a
\* definition of the bit: the predecessors of the instruction's block when
\* no definition lies above the instruction, and those of every entered
\* block that holds no definition.
RECURSIVE EnteredBlocks(_, _)
EnteredBlocks(entered, n) ==
  IF n = 0 THEN entered
  ELSE EnteredBlocks(
         entered \cup UNION {Preds(b) : b \in {e \in entered :
                               NoDefBetween(e, ArgPosition, LastPosition, search.index)}},
         n - 1)

Entered ==
  IF NoDefBetween(search.inst[1], ArgPosition, search.inst[2] - 1, search.index)
  THEN EnteredBlocks(Preds(search.inst[1]), Cardinality(Blocks))
  ELSE {}

\* The instruction lies upstream of the searched one.
Earlier(use, upstream) ==
  \/ use[1] = search.inst[1] /\ use[2] < search.inst[2]
  \/ use[1] \in upstream

\* The walk can arrive at the instruction without crossing a definition
\* below it.
Exposed(use, entered) ==
  \/ /\ use[1] = search.inst[1]
     /\ use[2] < search.inst[2]
     /\ NoDefBetween(use[1], use[2] + 1, search.inst[2] - 1, search.index)
  \/ /\ use[1] \in entered
     /\ NoDefBetween(use[1], use[2] + 1, LastPosition, search.index)

\* The lifetime-ending uses that a definition of the bit separates from the
\* searched instruction.
SeparatedUses ==
  LET upstream == UpstreamOfInst
      entered == Entered
  IN {use \in Insts : /\ ConsumingUse(use, search.index)
                      /\ Earlier(use, upstream)
                      /\ ~Exposed(use, entered)}

WasCalled(use) == \E k \in 1..Len(search.called) : search.called[k] = use

\* C18 as stated: the callback is not invoked for a lifetime-ending use that a
\* definition of the bit separates from the searched instruction, and the
\* search then returns true.
C18_Claimed ==
  Searched =>
    \A use \in SeparatedUses : ~WasCalled(use) /\ search.value

\* C18, amended: the callback is not invoked for a lifetime-ending use that a
\* definition of the bit separates from the searched instruction, and the
\* search then returns true unless the callback returned false for a use the
\* walk met before that definition.
C18_NoUseAcrossDef ==
  Searched =>
    \A use \in SeparatedUses :
      /\ ~WasCalled(use)
      /\ search.value \/ (search.called # <<>> /\ Refused(Len(search.called)))
      /\ search.defFound # <<>> => search.value

\* A block holds a lifetime-ending use and, below it, a definition; the
\* search started in a successor block below another lifetime-ending use,
\* invoked the callback for that one only, and returned true at the definition.
C18_Witness ==
  /\ Searched
  /\ \E use \in SeparatedUses :
       /\ use[1] # search.inst[1]
       /\ search.defFound = <<use[1], LastPosition>>
       /\ search.called = <<<<search.inst[1], 1>>>>
       /\ search.value

\* ------------------------------------------------- bits without a use
\* No use was recorded for the bit.
Unused(bit) == \A inst \in Insts : bit \notin users[inst].liveBits

\* The boundary's entries for one bit.
OfBit(entries, bit) == {e \in entries : e[2] = bit}

\* C19: in the boundary of a single-definition range, a bit of the defined
\* range without a recorded use is a dead definition at the defining
\* instruction or argument, and has no last user and no boundary edge,
\* whatever uses the other bits have.
C19_UnusedBitDeadDef ==
  phase = "boundary" /\ variant = "SSA" =>
    \A bit \in Bits :
      isDef(defs, theDef(defs), bit) /\ Unused(bit) =>
        /\ OfBit(boundary.deadDefs, bit) = {<<theDef(defs), bit>>}
        /\ OfBit(boundary.lastUsers, bit) = {}
        /\ OfBit(boundary.boundaryEdges, bit) = {}

\* One bit of the value is used, in the definition's block and in a block
\* below it, and has a last user and a boundary edge; the other bit has no
\* use and is a dead definition.
C19_Witness ==
  /\ phase = "boundary"
  /\ variant = "SSA"
  /\ \E used, unused \in Bits :
       /\ Unused(unused)
       /\ \E inst \in Insts : inst[1] = theDef(defs)[1] /\ used \in users[inst].liveBits
       /\ OfBit(boundary.lastUsers, used) # {}
       /\ OfBit(boundary.boundaryEdges, used) # {}
       /\ OfBit(boundary.deadDefs, used) = {}
       /\ OfBit(boundary.deadDefs, unused) = {<<theDef(defs), unused>>}

\* ------------------------------------------ computeScalarUseBlockLiveness
\* The blocks from which the block can be reached.
UpstreamOf(block) == Upstream(Preds(block), Cardinality(Blocks))

\* C20: every call of computeScalarUseBlockLiveness returns, on every CFG,
\* and pops no block twice.
C20_WorklistTerminates ==
  /\ [](wl # NoWalk =>
          /\ \A j, k \in 1..Len(wl.popped) : wl.popped[j] = wl.popped[k] => j = k
          /\ \A k \in 1..Len(wl.worklist) :
               \A j \in 1..Len(wl.popped) : wl.worklist[k] # wl.popped[j])
  /\ (phase = "walking") ~> (phase = "uses")

\* A walk that started in a block of a cycle has popped every block of the
\* function once and its worklist is empty.
C20_Witness ==
  /\ phase = "walking"
  /\ wl.worklist = <<>>
  /\ wl.user[1] \in UpstreamOf(wl.user[1])
  /\ Len(wl.popped) = Cardinality(Blocks)

\* ------------------------------------------------------ the LiveOut state
\* The successors of the block that are Dead for the bit.
DeadSuccessors(block, bit) == {s \in succs[block] : live[s][bit] = "Dead"}

\* C21, as claimed: a block that is LiveOut for a bit has no successor that
\* is Dead for that bit.
C21_Claimed ==
  \A block \in Blocks, bit \in Bits :
    live[block][bit] = "LiveOut" => DeadSuccessors(block, bit) = {}

\* C21: a block that is LiveOut for a bit has a successor that is not Dead
\* for that bit, and computeBoundary puts a boundary edge on each of its
\* successors that is Dead for it.
C21_LiveOutHasLiveSuccessor ==
  \A block \in Blocks, bit \in Bits :
    live[block][bit] = "LiveOut" =>
      /\ DeadSuccessors(block, bit) # succs[block]
      /\ phase = "boundary" =>
           \A s \in DeadSuccessors(block, bit) : <<s, bit>> \in boundary.boundaryEdges

\* A LiveOut block with a live and a Dead successor, after computeBoundary.
C21_Witness ==
  /\ phase = "boundary"
  /\ \E block \in Blocks, bit \in Bits :
       /\ live[block][bit] = "LiveOut"
       /\ DeadSuccessors(block, bit) # {}
       /\ DeadSuccessors(block, bit) # succs[block]

\* ---------------------------------------------------- getUniqueFeaturesUsed
\* The declarations the walk of getUniqueFeaturesUsed passes, starting after
\* decl: the storage of an accessor, the declaration context otherwise.
RECURSIVE EnclosingDecls(_)
EnclosingDecls(decl) ==
  LET next == IF decls[decl].accessor THEN decls[decl].storage ELSE decls[decl].context
  IN IF next = NoDecl THEN {} ELSE {next} \cup EnclosingDecls(next)

\* The features in the set, required or suppressible.
FeaturesOf(fs) == fs.required \cup fs.suppressible

\* C22, as claimed: getUniqueFeaturesUsed(decl) returns exactly the features
\* that decl uses and that none of its enclosing declarations uses.
C22_Claimed ==
  fphase = "done" =>
    FeaturesOf(features) =
      {f \in decls[subject].uses : \A e \in EnclosingDecls(subject) : f \notin decls[e].uses}

\* ------------------------------------------- the facts of a LiveWithin block
\* The last users and the dead definitions of the bit recorded in the block.
FactsInBlock(block, bit) ==
  {<<"lastUser", f[1]>> : f \in {g \in boundary.lastUsers : g[1][1] = block /\ g[2] = bit}}
  \cup {<<"deadDef", f[1]>> : f \in {g \in boundary.deadDefs : g[1][1] = block /\ g[2] = bit}}

\* C23, as claimed: after computeBoundary, every block that is LiveWithin for
\* a bit holds exactly one fact for that bit, a last user or a dead
\* definition.
C23_Claimed ==
  phase = "boundary" =>
    \A block \in DiscoveredBlocks, bit \in Bits :
      live[block][bit] = "LiveWithin" => Cardinality(FactsInBlock(block, bit)) = 1

\* C23: after computeBoundary, every block that is LiveWithin for a bit holds
\* at least one fact for that bit, and exactly one when the range has a
\* single definition or the block holds no definition of the bit.
C23_LiveWithinFacts ==
  phase = "boundary" =>
    \A block \in DiscoveredBlocks, bit \in Bits :
      live[block][bit] = "LiveWithin" =>
        /\ Cardinality(FactsInBlock(block, bit)) >= 1
        /\ (Cardinality(defs) = 1 \/ ~isDefBlock(defs, block, bit)) =>
             Cardinality(FactsInBlock(block, bit)) = 1

\* A LiveWithin block without definition that holds its one fact, and a
\* LiveWithin definition block that holds two.
C23_Witness ==
  /\ phase = "boundary"
  /\ \E b1 \in DiscoveredBlocks, b2 \in DiscoveredBlocks :
       /\ live[b1][TrackedBit] = "LiveWithin"
       /\ ~isDefBlock(defs, b1, TrackedBit)
       /\ Cardinality(FactsInBlock(b1, TrackedBit)) = 1
       /\ live[b2][TrackedBit] = "LiveWithin"
       /\ Cardinality(FactsInBlock(b2, TrackedBit)) = 2

\* -------------------------------------------- live-within blocks without use
\* The block holds a recorded interesting user of the bit.
HasInterestingUser(block, bit) ==
  \E p \in InstPositions : isInteresting(users, <<block, p>>, bit)

LiveWithinNonDefBlocks(bit) ==
  {block \in Blocks : live[block][bit] = "LiveWithin" /\ ~isDefBlock(defs, block, bit)}

\* C24, as claimed: every block that is LiveWithin for a bit and holds no
\* definition of it holds a recorded interesting user of the bit, and
\* computeBoundary never reaches the unreachable of findBoundaryInNonDefBlock.
C24_Claimed ==
  \A bit \in Bits : \A block \in LiveWithinNonDefBlocks(bit) :
    /\ HasInterestingUser(block, bit)
    /\ findBoundaryInNonDefBlock(users, block, bit).ok

\* ------------------------------------------------- a use before the definition
\* The bits for which the user's use-before-def flag is set.
FlaggedBits(user, range) == useBeforeDefBitsOf(variant, defs, user, range)

\* After the step, every predecessor of the block is LiveOut for the bit and
\* so is every predecessor of a predecessor that was Dead before the step.
PropagatedFrom(block, bit) ==
  \A p \in Preds(block) :
    /\ live'[p][bit] = "LiveOut"
    /\ live[p][bit] = "Dead" => \A q \in Preds(p) : live'[q][bit] = "LiveOut"

\* C25: an updateForUse whose use-before-def flag is set for a bit propagates
\* liveness for the bit, whatever the state of the user's block: afterwards
\* the block is not Dead, its predecessors are LiveOut, and so are the
\* predecessors of each predecessor that was Dead.
C25_UseBeforeDefPropagates ==
  [][\A user \in Insts, range \in LeafZero, lifetimeEnding \in BOOLEAN :
       (nOps' = nOps + 1 /\ FlaggedBits(user, range) # {}
        /\ UpdateForUse(user, range, lifetimeEnding)) =>
         \A bit \in FlaggedBits(user, range) :
           /\ live'[user[1]][bit] # "Dead"
           /\ PropagatedFrom(user[1], bit)]_vars

\* A recorded use above the definitions of its block, which was LiveWithin
\* through its definition before the use: the block has predecessors, one of
\* them with a predecessor of its own, and all of them are LiveOut.
C25_Witness ==
  /\ variant = "MultiDef"
  /\ \E user \in Insts :
       /\ isInteresting(users, user, TrackedBit)
       /\ multiDefIsUserBeforeDef(defs, user, TrackedBit)
       /\ \E p \in Preds(user[1]) : Preds(p) # {}
       /\ \A p \in Preds(user[1]) :
            /\ live[p][TrackedBit] = "LiveOut"
            /\ \A q \in Preds(p) : live[q][TrackedBit] = "LiveOut"

\* ------------------------------------------------------ a use in a LiveOut block
\* C26, as claimed: recording a use of a bit in a block that is already
\* LiveOut for the bit changes the state of no block for any bit.
C26_Claimed ==
  [][\A user \in Insts, range \in LeafZero, lifetimeEnding \in BOOLEAN :
       (nOps' = nOps + 1
        /\ (\A bit \in RangeBits(range) : live[user[1]][bit] = "LiveOut")
        /\ UpdateForUse(user, range, lifetimeEnding)) =>
         live' = live]_vars


\* C26: recording a use of a bit whose use-before-def flag is clear in a
\* block that is already LiveOut for the bit changes the state of no block
\* for that bit.
C26_NoOpInLiveOutBlock ==
  [][\A user \in Insts, range \in LeafZero, lifetimeEnding \in BOOLEAN :
       \A bit \in RangeBits(range) :
         (/\ nOps' = nOps + 1
          /\ live[user[1]][bit] = "LiveOut"
          /\ bit \notin FlaggedBits(user, range)
          /\ UpdateForUse(user, range, lifetimeEnding)) =>
           \A block \in Blocks : live'[block][bit] = live[block][bit]]_vars

\* Two recorded uses in one block of a self-loop below the single definition:
\* the first made the block LiveOut, the second found it LiveOut.
C26_Witness ==
  /\ variant = "SSA"
  /\ \E u1 \in Insts, u2 \in Insts :
       /\ u1 # u2
       /\ u1[1] = u2[1]
       /\ u1[1] \in succs[u1[1]]
       /\ isInteresting(users, u1, TrackedBit)
       /\ isInteresting(users, u2, TrackedBit)
       /\ live[u1[1]][TrackedBit] = "LiveOut"

\* ------------------------------------------------------------ isUserBeforeDef
\* An instruction above the user in its block defines the bit.
DefFoundAbove(user, bit) ==
  \E p \in InstPositions : p < user[2] /\ isDef(defs, <<user[1], p>>, bit)

\* C27, as claimed: for several definitions, isUserBeforeDef(user, bit) is
\* false when a definition of the bit is found walking backward from the
\* user inside its block, and true otherwise.
C27_Claimed ==
  (variant = "MultiDef" /\ phase # "defs") =>
    \A user \in Insts, bit \in Bits :
      multiDefIsUserBeforeDef(defs, user, bit) = ~DefFoundAbove(user, bit)

\* C27: for several definitions, isUserBeforeDef(user, bit) is true exactly
\* when the user's block holds a definition of the bit, no argument of the
\* block defines it and no instruction above the user defines it; the user's
\* own definition of the bit does not count as above it.
C27_IsUserBeforeDef ==
  (variant = "MultiDef" /\ phase # "defs") =>
    \A user \in Insts, bit \in Bits :
      multiDefIsUserBeforeDef(defs, user, bit) =
        (/\ isDefBlock(defs, user[1], bit)
         /\ ~isDef(defs, <<user[1], ArgPosition>>, bit)
         /\ ~DefFoundAbove(user, bit))

\* A recorded use between the definition made by the argument of its block
\* and a definition below it: it is not before the definition, and the
\* predecessors of the block stay Dead.
C27_Witness ==
  /\ variant = "MultiDef"
  /\ \E user \in Insts :
       /\ isInteresting(users, user, TrackedBit)
       /\ isDef(defs, <<user[1], ArgPosition>>, TrackedBit)
       /\ \E p \in InstPositions : p > user[2] /\ isDef(defs, <<user[1], p>>, TrackedBit)
       /\ ~DefFoundAbove(user, TrackedBit)
       /\ ~multiDefIsUserBeforeDef(defs, user, TrackedBit)
       /\ Preds(user[1]) # {}
       /\ \A p \in Preds(user[1]) : live[p][TrackedBit] = "Dead"

\* ------------------------------------------- LiveOut blocks, one definition
\* The boundary edges the LiveOut blocks give rise to: their Dead successors.
EdgesOfLiveOutBlocks ==
  {e \in Blocks \X Bits :
     \E block \in DiscoveredBlocks :
       live[block][e[2]] = "LiveOut" /\ e[1] \in DeadSuccessors(block, e[2])}

\* C28: for a single definition, computeBoundary records no last user and no
\* dead definition of a bit in a block that is LiveOut for the bit, and the
\* boundary edges are the Dead successors of the LiveOut blocks.
C28_NoFactInLiveOutBlock ==
  (variant = "SSA" /\ phase = "boundary") =>
    /\ \A block \in DiscoveredBlocks, bit \in Bits :
         live[block][bit] = "LiveOut" => FactsInBlock(block, bit) = {}
    /\ boundary.boundaryEdges = EdgesOfLiveOutBlocks

\* A LiveOut block that holds a recorded use and has a Dead successor: the
\* use is not a last user and the successor has the boundary edge.
C28_Witness ==
  /\ variant = "SSA"
  /\ phase = "boundary"
  /\ \E block \in DiscoveredBlocks :
       /\ live[block][TrackedBit] = "LiveOut"
       /\ HasInterestingUser(block, TrackedBit)
       /\ FactsInBlock(block, TrackedBit) = {}
       /\ \E s \in DeadSuccessors(block, TrackedBit) : <<s, TrackedBit>> \in boundary.boundaryEdges

\* ------------------------------------- LiveOut blocks, several definitions
\* The positions of the block, argument included, that define the bit.
DefPositions(block, bit) ==
  {p \in {ArgPosition} \cup InstPositions : isDef(defs, <<block, p>>, bit)}

\* No instruction at a position after from, up to and including to, is an
\* interesting user of the bit.
NoUseBetween(block, from, to, bit) ==
  \A p \in InstPositions : (from < p /\ p <= to) => ~isInteresting(users, <<block, p>>, bit)

\* The recorded uses of the bit at or above the last definition of the bit in
\* the block, with no other use between the use and that definition.
UsesAboveLastDef(block, bit) ==
  {u \in Insts :
     /\ u[1] = block
     /\ isInteresting(users, u, bit)
     /\ \E d \in DefPositions(block, bit) :
          /\ \A e \in DefPositions(block, bit) : e <= d
          /\ u[2] <= d
          /\ NoUseBetween(block, u[2], d, bit)}

\* The definitions of the bit in the block that a later definition of the bit
\* in the block shadows, with no use in between.
ShadowedDefs(block, bit) ==
  {<<block, d>> : d \in
     {d \in DefPositions(block, bit) :
        \E e \in DefPositions(block, bit) : d < e /\ NoUseBetween(block, d, e, bit)}}

\* C29, as claimed: for one or more definitions, in a block that is LiveOut
\* for a bit and holds a definition of it, a use above the last definition
\* with no use in between is a last user, and a definition shadowed by a later
\* one with no use in between is a dead definition.
C29_Claimed ==
  (variant = "MultiDef" /\ phase = "boundary") =>
    \A block \in DiscoveredBlocks, bit \in Bits :
      (live[block][bit] = "LiveOut" /\ isDefBlock(defs, block, bit)) =>
        /\ \A u \in UsesAboveLastDef(block, bit) : <<u, bit>> \in boundary.lastUsers
        /\ \A d \in ShadowedDefs(block, bit) : <<d, bit>> \in boundary.deadDefs

\* ------------------------------------------ mixed predecessors of a definition block
\* The backward scan of a definition block of the bit reaches the top of the
\* block with the bit not live: no use of the bit at or above the first
\* defining instruction, or no defining instruction and no use at all in a
\* block that is not LiveOut.
NotLiveAtTop(block, bit) ==
  LET defining == DefPositions(block, bit) \cap InstPositions
      using == {p \in InstPositions : isInteresting(users, <<block, p>>, bit)}
  IN IF defining = {} THEN live[block][bit] # "LiveOut" /\ using = {}
     ELSE \A u \in using : \E d \in defining : d < u

MixedPredecessors(block, bit) ==
  /\ \E p \in Preds(block) : live[p][bit] = "LiveOut"
  /\ \E p \in Preds(block) : live[p][bit] # "LiveOut"

\* C30, as claimed: in a range with several definitions, where the scan that
\* looks at the predecessors is the one at work, a definition block that is
\* not live at its top for a bit and has both LiveOut and other predecessors
\* for the bit gets a boundary edge for the bit, for the value flowing in from
\* its LiveOut predecessors.
C30_Claimed ==
  (variant = "MultiDef" /\ phase = "boundary" /\ Cardinality(defs) > 1) =>
    \A block \in DiscoveredBlocks, bit \in Bits :
      (/\ live[block][bit] # "Dead"
       /\ isDefBlock(defs, block, bit)
       /\ NotLiveAtTop(block, bit)
       /\ MixedPredecessors(block, bit)) =>
        <<block, bit>> \in boundary.boundaryEdges

\* ------------------------------------------- the flag of the multi-definition scan
\* The instructions of the block below position pos that define the bit or
\* are interesting users of it.
EventsBelow(block, pos, bit) ==
  {q \in InstPositions :
     q > pos /\ (isDef(defs, <<block, q>>, bit) \/ isInteresting(users, <<block, q>>, bit))}

\* The flag of the backward scan when it reaches the instruction: the block's
\* LiveOut state if nothing below the instruction touches the bit, and
\* otherwise whether the nearest instruction below that does is a user.
FlagOnReaching(inst, bit) ==
  LET below == EventsBelow(inst[1], inst[2], bit)
  IN IF below = {} THEN live[inst[1]][bit] = "LiveOut"
     ELSE \E q \in below :
            /\ \A r \in below : q <= r
            /\ isInteresting(users, <<inst[1], q>>, bit)

\* The blocks the multi-definition scan is run on for the bit.
ScannedBlocks(bit) ==
  {block \in DiscoveredBlocks :
     /\ variant = "MultiDef"
     /\ Cardinality(defs) > 1
     /\ live[block][bit] # "Dead"
     /\ isDefBlock(defs, block, bit)}

\* C31: in the backward scan of a block of a range with several definitions,
\* an instruction is a dead definition exactly when it defines the bit and the
\* flag is clear on reaching it, and a last user exactly when it is an
\* interesting user and the flag is clear after its own definition effect.
C31_ScanFlag ==
  phase = "boundary" =>
    \A bit \in Bits : \A block \in ScannedBlocks(bit) : \A p \in InstPositions :
      LET inst == <<block, p>>
          flag == FlagOnReaching(inst, bit)
      IN /\ <<inst, bit>> \in boundary.deadDefs <=> (isDef(defs, inst, bit) /\ ~flag)
         /\ <<inst, bit>> \in boundary.lastUsers <=>
              (isInteresting(users, inst, bit) /\ (isDef(defs, inst, bit) \/ ~flag))

\* A LiveOut block in which a definition is reached while the bit is live,
\* and is no dead definition, and an instruction above it is a last user.
C31_Witness ==
  /\ phase = "boundary"
  /\ \E block \in ScannedBlocks(TrackedBit) :
       /\ live[block][TrackedBit] = "LiveOut"
       /\ \E d \in InstPositions, u \in InstPositions :
            /\ u < d
            /\ isDef(defs, <<block, d>>, TrackedBit)
            /\ FlagOnReaching(<<block, d>>, TrackedBit)
            /\ <<<<block, d>>, TrackedBit>> \notin boundary.deadDefs
            /\ <<<<block, u>>, TrackedBit>> \in boundary.lastUsers

\* ------------------------------------------------- the discovered-block list
\* The blocks with at least one bit that is not Dead.
LiveBlocks == {block \in Blocks : \E bit \in Bits : live[block][bit] # "Dead"}

DiscoveredOnce ==
  /\ \A i \in 1..Len(discovered) : \A j \in 1..Len(discovered) :
       discovered[i] = discovered[j] => i = j
  /\ DiscoveredBlocks = LiveBlocks

\* The list only grows at its end, by blocks that had no live bit before.
DiscoveredInOrder ==
  /\ Len(discovered') >= Len(discovered)
  /\ SubSeq(discovered', 1, Len(discovered)) = discovered
  /\ \A i \in (Len(discovered) + 1)..Len(discovered') : discovered'[i] \notin LiveBlocks

\* C32: the discovered list has no duplicates, lists exactly the blocks with
\* a bit that is not Dead, and grows only at its end by blocks visited for
\* the first time; so computeBoundary's assertion that each listed block has
\* a non-Dead bit holds.
C32_DiscoveredOnce == [](DiscoveredOnce) /\ [][DiscoveredInOrder]_vars

\* Two blocks are listed, and one of them has both bits live in different
\* states: its second bit left Dead after the block was listed.
C32_Witness ==
  /\ Len(discovered) = 2
  /\ phase = "boundary"
  /\ \E block \in DiscoveredBlocks :
       /\ live[block][0] # "Dead"
       /\ live[block][1] # "Dead"
       /\ live[block][0] # live[block][1]

\* ------------------------------------------------ the order of recorded uses
\* The uses that can be recorded on the leaf range [0, 1): an instruction the
\* live range admits as a user, and whether it ends the lifetime.
UsesToRecord ==
  {u \in Insts \X LeafZero \X BOOLEAN : BelowSSADef(u[1])}

recordUse(t, u) == rangeUpdateForUse(variant, defs, t, u[1], u[2], u[3])

\* Two analyses yield the same: the liveness of every (block, bit), the user
\* records and the boundary computed from them.  The boundary is computed
\* from the liveness, the user records and the discovered list alone.
SameOutcome(s, t) ==
  /\ s.st.live = t.st.live
  /\ s.users = t.users
  /\ s.st.discovered # t.st.discovered =>
       computeBoundary(variant, defs, s.st, s.users, EmptyBoundary)
         = computeBoundary(variant, defs, t.st, t.users, EmptyBoundary)

OnlyWithin(t, user, range) ==
  /\ \A block \in Blocks : \A bit \in Bits \ RangeBits(range) :
       t.st.live[block][bit] = live[block][bit]
  /\ \A inst \in Insts : \A bit \in Bits :
       (inst # user \/ ~RangeContains(range, bit)) =>
         /\ isInterestingUser(t.users, inst, bit) = isInterestingUser(users, inst, bit)
         /\ isRecorded(t.users, inst, bit) = isRecorded(users, inst, bit)

\* C34: updateForUse and extendToNonUse on a leaf range change the liveness
\* of no block for a bit outside the range, and the classification of no
\* bit outside the range and of no other instruction.  (computeBoundary
\* touches neither, so the states between two recordings are the states
\* before one.)
C34_Frame ==
  [](phase = "uses" =>
       \A user \in Insts : \A range \in Ranges :
         /\ \A lifetimeEnding \in BOOLEAN :
              LET asUse == rangeUpdateForUse(variant, defs, Tracker, user, range, lifetimeEnding)
              IN OnlyWithin(asUse, user, range)
         /\ LET asNonUse == rangeExtendToNonUse(variant, defs, Tracker, user, range)
            IN OnlyWithin(asNonUse, user, range))

\* A use of the second leaf alone has been recorded in a block the first
\* leaf is dead in: the instruction is no user of the first leaf.
C34_Witness ==
  /\ phase = "uses"
  /\ \E user \in Insts :
       /\ isInteresting(users, user, 1)
       /\ ~isRecorded(users, user, 0)
       /\ live[user[1]][1] = "LiveWithin"
       /\ live[user[1]][0] = "Dead"

\* ------------------------------------- the uses an always-true callback sees
\* The lifetime-ending uses of the bit from which the searched instruction is
\* reached along a path that executes no definition of the bit in between.
ExposedUses ==
  LET entered == Entered
  IN {use \in Insts : ConsumingUse(use, search.index) /\ Exposed(use, entered)}

AlwaysTrue == search.refused = {}

\* The walk scanned the use's position coming from the searched instruction
\* or from the end of a block it popped.
ScannedFromBelow(use) ==
  \/ /\ use[1] = search.inst[1]
     /\ use[2] < search.inst[2]
     /\ NoDefBetween(use[1], use[2] + 1, search.inst[2] - 1, search.index)
  \/ \E k \in 1..Len(search.popped) : search.popped[k] = use[1]

\* C35 as stated: with a callback that always returns true, the callback is
\* invoked on every lifetime-ending use from which the instruction is reached
\* without executing a definition, whatever the other backward paths hold.
C35_Claimed ==
  Searched /\ AlwaysTrue => \A use \in ExposedUses : WasCalled(use)

\* C35, amended: with a callback that always returns true, the callback is
\* invoked on every such use that is not itself a definition of the bit and
\* that the walk scans; and on every such use when the walk meets no
\* definition.
C35_ExposedUsesScanned ==
  Searched /\ AlwaysTrue =>
    /\ \A use \in ExposedUses :
         ScannedFromBelow(use) /\ ~isDef(defs, use, search.index) => WasCalled(use)
    /\ search.defFound = <<>> => \A use \in ExposedUses : WasCalled(use)

\* The searched instruction has two predecessor blocks; the walk returned at
\* the definition in the one it scanned first, and the lifetime-ending use
\* in the other one, on a path without definition, was not reported.
C35_Witness ==
  /\ Searched
  /\ AlwaysTrue
  /\ search.defFound # <<>>
  /\ search.defFound[1] # search.inst[1]
  /\ \E use \in ExposedUses :
       /\ use[1] \notin {search.inst[1], search.defFound[1]}
       /\ ~WasCalled(use)
  /\ \E use \in ExposedUses : WasCalled(use)

\* ------------------------------------------------------ visitContiguousRanges
\* The loop of visitContiguousRanges from position bit on: current is <<>>
\* (llvm::None) or holds the start of the run being read, called lists the
\* ranges handed to the callback so far.  bits[bit + 1] is bits.test(bit).
\* Variant: a run that reaches the end of the vector is not reported.
RECURSIVE visitContiguousRangesFrom_NoLastRun(_, _, _, _)
visitContiguousRangesFrom_NoLastRun(bits, bit, current, called) ==
  IF bit >= Len(bits) THEN called
  ELSE LET isSet == bits[bit + 1]
       IN IF current # <<>>
          THEN IF ~isSet
               THEN visitContiguousRangesFrom_NoLastRun(
                      bits, bit + 1, <<>>, Append(called, <<current[1], bit>>))
               ELSE visitContiguousRangesFrom_NoLastRun(bits, bit + 1, current, called)
          ELSE IF isSet
          THEN visitContiguousRangesFrom_NoLastRun(bits, bit + 1, <<bit>>, called)
          ELSE visitContiguousRangesFrom_NoLastRun(bits, bit + 1, <<>>, called)

RECURSIVE visitContiguousRangesFrom(_, _, _, _)
visitContiguousRangesFrom(bits, bit, current, called) ==
  IF bit >= Len(bits)
  THEN IF current # <<>> THEN Append(called, <<current[1], Len(bits)>>) ELSE called
  ELSE LET isSet == bits[bit + 1]
       IN IF current # <<>>
          THEN IF ~isSet
               THEN visitContiguousRangesFrom(
                      bits, bit + 1, <<>>, Append(called, <<current[1], bit>>))
               ELSE visitContiguousRangesFrom(bits, bit + 1, current, called)
          ELSE IF isSet
          THEN visitContiguousRangesFrom(bits, bit + 1, <<bit>>, called)
          ELSE visitContiguousRangesFrom(bits, bit + 1, <<>>, called)

visitContiguousRanges(bits) ==
  IF Len(bits) = 0 THEN <<>>
  ELSE visitContiguousRangesFrom(bits, 0, <<>>, <<>>)

\* A caller builds a bit vector, bit by bit.
PushBack(isSet) ==
  /\ ~contiguous.visited
  /\ Len(contiguous.bits) < MaxBits
  /\ contiguous' = [contiguous EXCEPT !.bits = Append(@, isSet)]
  /\ UNCHANGED <<liveVars, search, wl, typeVars, featureVars>>
  /\ UNCHANGED <<projections, filtered, matching>>

\* visitContiguousRanges(bits, callback).
VisitContiguousRanges ==
  /\ ~contiguous.visited
  /\ contiguous' = [contiguous EXCEPT !.visited = TRUE,
                                      !.called = visitContiguousRanges(contiguous.bits)]
  /\ UNCHANGED <<liveVars, search, wl, typeVars, featureVars>>
  /\ UNCHANGED <<projections, filtered, matching>>

InitRanges == NoAnalysis /\ NoProjection /\ NoFeatureQuery /\ NoCalls

NextRanges ==
  \/ \E isSet \in BOOLEAN : PushBack(isSet)
  \/ VisitContiguousRanges

SpecRanges == InitRanges /\ [][NextRanges]_vars

\* The set bits of the vector, counted from 0.
SetBits == {bit \in 0..(Len(contiguous.bits) - 1) : contiguous.bits[bit + 1]}

\* The bits of the k-th reported range.
ReportedBits(k) == {bit \in 0..MaxBits : contiguous.called[k][1] <= bit /\ bit < contiguous.called[k][2]}

\* C39: the callback is invoked once for each maximal run of set bits, in
\* ascending order: the reported ranges are non-empty, each ends below the
\* start of the next with a clear bit in between, and their union is the set
\* of set bits; nothing is reported for an empty or all-zero vector.
C39_MaximalRuns ==
  contiguous.visited =>
    LET called == contiguous.called
    IN /\ \A k \in 1..Len(called) : called[k][1] < called[k][2]
       /\ \A k \in 1..(Len(called) - 1) : called[k][2] < called[k + 1][1]
       /\ UNION {ReportedBits(k) : k \in 1..Len(called)} = SetBits
       /\ SetBits = {} => called = <<>>

\* A vector with two runs, the second one reaching the end of the vector,
\* was reported as two ranges.
C39_Witness ==
  /\ contiguous.visited
  /\ Len(contiguous.called) = 2
  /\ contiguous.called[1][1] > 0
  /\ contiguous.called[1][2] - contiguous.called[1][1] > 1
  /\ contiguous.called[2][2] = Len(contiguous.bits)

\* ----------------------------------------------- constructFilteredProjections
\* A bit vector is the set of its set bits; a leaf range is <<start, end>>.
noneSet(bv, start, end) == \A index \in start..(end - 1) : index \notin bv

allSet(bv, start, end) == \A index \in start..(end - 1) : index \in bv

\* The loop over the stored properties of a struct or the elements of a
\* tuple, from the i-th on: the callback is handed each element that has a
\* set bit, with its range.
RECURSIVE filteredElements(_, _, _, _, _)
filteredElements(elts, i, start, filterBitVector, called) ==
  IF i > Len(elts) THEN [start |-> start, called |-> called]
  ELSE LET next == start + TypeSubElementCount(elts[i].type)
       IN IF noneSet(filterBitVector, start, next)
          THEN filteredElements(elts, i + 1, next, filterBitVector, called)
          ELSE filteredElements(elts, i + 1, next, filterBitVector,
                                Append(called, <<elts[i].type, <<start, next>>>>))

\* The enum case: the enum's own value is handed back with the range
\* <<start, next>>; ok is whether both assertions held.
filteredEnum(type, range, filterBitVector) ==
  LET start == range[1]
      next == maxOfPayloads(type.elts, Len(type.elts)) + 1
  IN IF ~allSet(filterBitVector, start, next) THEN [called |-> <<>>, ok |-> FALSE]
     ELSE [called |-> <<<<type, <<start, next>>>>>>, ok |-> next = range[2]]

\* Variant: the bit of a deinit's 'self' is handed to the callback as well.
filteredStruct_SelfBit(type, range, filterBitVector) ==
  LET fields == filteredElements(type.elts, 1, range[1], filterBitVector, <<>>)
  IN IF type.deinit
     THEN [called |-> Append(fields.called, <<Leaf, <<fields.start, fields.start + 1>>>>),
           ok |-> fields.start + 1 = range[2]]
     ELSE [called |-> fields.called, ok |-> fields.start = range[2]]

filteredStruct(type, range, filterBitVector) ==
  LET fields == filteredElements(type.elts, 1, range[1], filterBitVector, <<>>)
      start == IF type.deinit THEN fields.start + 1 ELSE fields.start
  IN [called |-> fields.called, ok |-> start = range[2]]

filteredTuple(type, range, filterBitVector) ==
  LET elements == filteredElements(type.elts, 1, range[1], filterBitVector, <<>>)
  IN [called |-> elements.called, ok |-> elements.start = range[2]]

\* range.constructFilteredProjections(value, insertPt, filterBitVector,
\* callback) for a value of the type: the callback's invocations in order,
\* and whether the call ran to its end (no failed assertion, no
\* llvm_unreachable).
constructFilteredProjections(type, range, filterBitVector) ==
  IF type.kind = "struct" THEN filteredStruct(type, range, filterBitVector)
  ELSE IF type.kind = "enum" THEN filteredEnum(type, range, filterBitVector)
  ELSE IF type.kind = "tuple" THEN filteredTuple(type, range, filterBitVector)
  ELSE [called |-> <<>>, ok |-> FALSE]

\* The range of a value of the type that starts at the offset.
RangeOf(type, start) == <<start, start + TypeSubElementCount(type)>>

\* A caller holds a value of an aggregate type whose range starts at the
\* offset, and a filter with no bit set yet.
HoldValue(type, start) ==
  /\ filtered.phase = "idle"
  /\ type.kind # "leaf"
  /\ filtered' = [phase |-> "value", type |-> type, range |-> RangeOf(type, start),
                  filterBitVector |-> {}, called |-> <<>>, ok |-> TRUE]
  /\ UNCHANGED <<liveVars, search, wl, typeVars, featureVars>>
  /\ UNCHANGED <<projections, contiguous, matching>>

\* filterBitVector.set(index), the bits set in ascending order; the filter is
\* as long as the value the range lies in.
SetFilterBit(index) ==
  /\ filtered.phase = "value"
  /\ index < filtered.range[2]
  /\ \A set \in filtered.filterBitVector : set < index
  /\ filtered' = [filtered EXCEPT !.filterBitVector = @ \cup {index}]
  /\ UNCHANGED <<liveVars, search, wl, typeVars, featureVars>>
  /\ UNCHANGED <<projections, contiguous, matching>>

ConstructFilteredProjections ==
  /\ filtered.phase = "value"
  /\ LET f == constructFilteredProjections(filtered.type, filtered.range,
                                           filtered.filterBitVector)
     IN filtered' = [filtered EXCEPT !.phase = "asked", !.called = f.called, !.ok = f.ok]
  /\ UNCHANGED <<liveVars, search, wl, typeVars, featureVars>>
  /\ UNCHANGED <<projections, contiguous, matching>>

InitFiltered == NoAnalysis /\ NoProjection /\ NoFeatureQuery /\ NoCalls

NextFiltered ==
  \/ \E type \in Types, start \in 0..MaxStart : HoldValue(type, start)
  \/ \E index \in 0..(MaxStart + MaxLeaves - 1) : SetFilterBit(index)
  \/ ConstructFilteredProjections

SpecFiltered == InitFiltered /\ [][NextFiltered]_vars

\* C38: for an enum's range whose bits are all set in the filter, the
\* callback is handed exactly that range, once, and both assertions hold,
\* whatever the start offset.
C38_Claimed ==
  /\ filtered.phase = "asked"
  /\ filtered.type.kind = "enum"
  /\ allSet(filtered.filterBitVector, filtered.range[1], filtered.range[2])
  => /\ filtered.ok
     /\ filtered.called = <<<<filtered.type, filtered.range>>>>

\* ------------------------------------ constructProjectionsForNeededElements
BitsOf(range) == range[1]..(range[2] - 1)

\* A caller holds a root value of the type; no element is needed yet.
RootValue(type) ==
  /\ projections.phase = "idle"
  /\ TypeSubElementCount(type) <= MaxLeaves
  /\ projections' = [phase |-> "root", rootValue |-> type, neededElements |-> {},
                     worklist |-> <<>>, resultingProjections |-> <<>>]
  /\ UNCHANGED <<liveVars, search, wl, typeVars, featureVars>>
  /\ UNCHANGED <<filtered, contiguous, matching>>

\* neededElements.set(index), the bits set in ascending order.
SetNeededElement(index) ==
  /\ projections.phase = "root"
  /\ index < TypeSubElementCount(projections.rootValue)
  /\ \A set \in projections.neededElements : set < index
  /\ projections' = [projections EXCEPT !.neededElements = @ \cup {index}]
  /\ UNCHANGED <<liveVars, search, wl, typeVars, featureVars>>
  /\ UNCHANGED <<filtered, contiguous, matching>>

\* constructProjectionsForNeededElements up to its loop: the root value and
\* its range are pushed.
ConstructProjectionsForNeededElements ==
  /\ projections.phase = "root"
  /\ projections' = [projections EXCEPT
                       !.phase = "running",
                       !.worklist = <<<<projections.rootValue,
                                       RangeOf(projections.rootValue, 0)>>>>]
  /\ UNCHANGED <<liveVars, search, wl, typeVars, featureVars>>
  /\ UNCHANGED <<filtered, contiguous, matching>>

\* One iteration of the loop on p = projections: the last pair is popped
\* and dropped, added to the result, or split by constructFilteredProjections,
\* whose callback pushes every part.
\* Variant: a partly needed struct with a deinit also yields its 'self' bit.
popBackVal_SelfBit(p) ==
  LET pair == p.worklist[Len(p.worklist)]
      value == pair[1]
      range == pair[2]
      rest == SubSeq(p.worklist, 1, Len(p.worklist) - 1)
      tmp == BitsOf(range) \cap p.neededElements
      split == IF value.kind = "struct"
               THEN filteredStruct_SelfBit(value, range, p.neededElements)
               ELSE constructFilteredProjections(value, range, p.neededElements)
  IN IF tmp = {} THEN [p EXCEPT !.worklist = rest]
     ELSE IF \A index \in BitsOf(range) : index \in tmp
     THEN [p EXCEPT !.worklist = rest, !.resultingProjections = Append(@, pair)]
     ELSE IF split.ok THEN [p EXCEPT !.worklist = rest \o split.called]
     ELSE [p EXCEPT !.phase = "halted"]

popBackVal(p) ==
  LET pair == p.worklist[Len(p.worklist)]
      value == pair[1]
      range == pair[2]
      rest == SubSeq(p.worklist, 1, Len(p.worklist) - 1)
      tmp == BitsOf(range) \cap p.neededElements
      split == constructFilteredProjections(value, range, p.neededElements)
  IN IF tmp = {} THEN [p EXCEPT !.worklist = rest]
     ELSE IF \A index \in BitsOf(range) : index \in tmp
     THEN [p EXCEPT !.worklist = rest, !.resultingProjections = Append(@, pair)]
     ELSE IF split.ok THEN [p EXCEPT !.worklist = rest \o split.called]
     ELSE [p EXCEPT !.phase = "halted"]

PopBackVal ==
  /\ projections.phase = "running"
  /\ projections.worklist # <<>>
  /\ projections' = popBackVal(projections)
  /\ UNCHANGED <<liveVars, search, wl, typeVars, featureVars>>
  /\ UNCHANGED <<filtered, contiguous, matching>>

\* worklist.empty(): the function returns.
ReturnProjections ==
  /\ projections.phase = "running"
  /\ projections.worklist = <<>>
  /\ projections' = [projections EXCEPT !.phase = "done"]
  /\ UNCHANGED <<liveVars, search, wl, typeVars, featureVars>>
  /\ UNCHANGED <<filtered, contiguous, matching>>

InitNeeded == NoAnalysis /\ NoProjection /\ NoFeatureQuery /\ NoCalls

NextNeeded ==
  \/ \E type \in Types : RootValue(type)
  \/ \E index \in 0..(MaxLeaves - 1) : SetNeededElement(index)
  \/ ConstructProjectionsForNeededElements
  \/ PopBackVal
  \/ ReturnProjections

SpecNeeded == InitNeeded /\ [][NextNeeded]_vars

\* A call runs its loop until the worklist is empty or an assertion fails.
FairNeeded == SpecNeeded /\ WF_vars(PopBackVal \/ ReturnProjections)


\* The values of the type tree of a value of the type that starts at the
\* offset, each with its range: the value itself and, for a tuple or a
\* struct that is taken apart, the values of its elements.
RECURSIVE ValuesIn(_, _)
RECURSIVE ElementsIn(_, _, _)
ElementsIn(elts, n, start) ==
  IF n = 0 THEN {}
  ELSE ElementsIn(elts, n - 1, start)
         \cup ValuesIn(elts[n].type, start + sumOfCounts(elts, n - 1))

ValuesIn(type, start) ==
  {<<type, RangeOf(type, start)>>}
    \cup IF type.kind = "tuple" \/ getFullyReferenceableStruct(type)
         THEN ElementsIn(type.elts, Len(type.elts), start)
         ELSE {}

RootValues == ValuesIn(projections.rootValue, 0)

PartlyNeeded(range) ==
  /\ BitsOf(range) \cap projections.neededElements # {}
  /\ ~(BitsOf(range) \subseteq projections.neededElements)

\* The bit is the 'self' bit of a struct with a deinit that is partly needed.
SelfBitOfPartlyNeededStruct(bit) ==
  \E v \in RootValues :
    /\ getFullyReferenceableStruct(v[1])
    /\ v[1].deinit
    /\ bit = v[2][2] - 1
    /\ PartlyNeeded(v[2])

PartlyNeededEnum == \E v \in RootValues : v[1].kind = "enum" /\ PartlyNeeded(v[2])

Returned == projections.phase = "done"

ProjectedBits(k) == BitsOf(projections.resultingProjections[k][2])

CoveredBits ==
  UNION {ProjectedBits(k) : k \in 1..Len(projections.resultingProjections)}

DisjointAndNeeded ==
  /\ \A j, k \in 1..Len(projections.resultingProjections) :
       j # k => ProjectedBits(j) \cap ProjectedBits(k) = {}
  /\ CoveredBits \subseteq projections.neededElements

\* C36 as stated: every call returns, with projections whose ranges are
\* pairwise disjoint, hold needed bits only and cover every needed bit, the
\* 'self' bit of a partly needed struct with a deinit included.
C36_Claimed ==
  /\ projections.phase # "halted"
  /\ Returned => DisjointAndNeeded /\ projections.neededElements \subseteq CoveredBits

\* C36, amended: a call in which no enum is partly needed returns projections
\* whose ranges are pairwise disjoint, hold needed bits only, and cover every
\* needed bit but the 'self' bits of the partly needed structs with a deinit;
\* a call in which an enum is partly needed fails an assertion; every call
\* ends.
C36_NeededProjections ==
  /\ [](Returned =>
          /\ DisjointAndNeeded
          /\ \A bit \in projections.neededElements :
               bit \in CoveredBits <=> ~SelfBitOfPartlyNeededStruct(bit)
          /\ ~PartlyNeededEnum)
  /\ [](projections.phase = "halted" => PartlyNeededEnum)
  /\ (projections.phase = "running") ~> (projections.phase \in {"done", "halted"})

\* A struct with a deinit, nested in a tuple or struct, was partly needed,
\* its 'self' bit among the needed bits: the call returned a projection for
\* a needed element but none for the 'self' bit.
C36_Witness ==
  /\ Returned
  /\ projections.resultingProjections # <<>>
  /\ \E bit \in projections.neededElements :
       /\ SelfBitOfPartlyNeededStruct(bit)
       /\ bit \notin CoveredBits
       /\ bit < TypeSubElementCount(projections.rootValue) - 1

\* ------------------------------------------------------ usesTypeDeclMatching
\* The declarations of a module: originalDecl, which is a nominal type, an
\* extension or another value declaration (a function), and two nominal
\* types.  A type reference <<from, via, to, position>> says that the nominal
\* type declaration `to` occurs in a type that `from` names as an inherited
\* type, as its extended type, as an inherited type of a generic parameter,
\* in a requirement of its where clause, or as its interface type; it occurs
\* there as the type's own declaration (getAnyNominal of the type) or in a
\* generic argument of the type.
OriginalDecl == 1

DeclKinds == {"nominal", "extension", "value"}

Vias == {"inherited", "extended", "genericParam", "requirement", "interface"}

Positions == {"nominal", "argument"}

\* The lambdas and branches of the loop body that apply to a declaration of
\* the kind, in the order the body runs them.
viasOf(kind) ==
  IF kind = "nominal" THEN <<"inherited", "genericParam", "requirement", "interface">>
  ELSE IF kind = "extension" THEN <<"extended", "inherited", "genericParam", "requirement">>
  ELSE <<"genericParam", "requirement", "interface">>

kindOf(m, decl) == IF decl = OriginalDecl THEN m.kind ELSE "nominal"

\* The declarations visitType is handed for the declaration through one of
\* its kinds of type: the type's own nominal, and for the interface type,
\* which is walked with Type::visit, the nominal of every type in it.
visitedTypes(m, decl, via) ==
  {r[3] : r \in {ref \in m.refs : /\ ref[1] = decl
                                   /\ ref[2] = via
                                   /\ (via = "interface" \/ ref[4] = "nominal")}}

\* visitType for each declaration of a sequence: toVisit.insert(nominal)
\* unless didVisit contains it; toVisit holds no declaration twice.
RECURSIVE visitType(_, _)
visitType(m, nominals) ==
  IF nominals = <<>> THEN m
  ELSE LET nominal == Head(nominals)
           inToVisit == \E k \in 1..Len(m.toVisit) : m.toVisit[k] = nominal
       IN visitType(IF nominal \in m.didVisit \/ inToVisit THEN m
                    ELSE [m EXCEPT !.toVisit = Append(@, nominal)],
                    Tail(nominals))

\* The visits of one iteration for the declaration, from the i-th on.
RECURSIVE visitFrom(_, _, _, _)
visitFrom(m, decl, vias, i) ==
  IF i > Len(vias) THEN m
  ELSE visitFrom(visitType(m, SortedSeq(visitedTypes(m, decl, vias[i]))), decl, vias, i + 1)

\* One iteration of the loop of usesTypeDeclMatching.
\* Variant: the types of a where clause are not visited.
visitDecl_NoRequirements(m) ==
  LET decl == m.toVisit[Len(m.toVisit)]
      popped == [m EXCEPT !.toVisit = SubSeq(@, 1, Len(@) - 1)]
      visited == [popped EXCEPT !.didVisit = @ \cup {decl},
                                !.evaluated = Append(@, decl)]
  IN IF decl \in m.didVisit THEN popped
     ELSE IF decl \in m.attr THEN [visited EXCEPT !.phase = "done", !.result = TRUE]
     ELSE visitFrom(visited, decl,
                    SelectSeq(viasOf(kindOf(m, decl)), LAMBDA via : via # "requirement"), 1)

visitDecl(m) ==
  LET decl == m.toVisit[Len(m.toVisit)]
      popped == [m EXCEPT !.toVisit = SubSeq(@, 1, Len(@) - 1)]
      visited == [popped EXCEPT !.didVisit = @ \cup {decl},
                                !.evaluated = Append(@, decl)]
  IN IF decl \in m.didVisit THEN popped
     ELSE IF decl \in m.attr THEN [visited EXCEPT !.phase = "done", !.result = TRUE]
     ELSE visitFrom(visited, decl, viasOf(kindOf(m, decl)), 1)

\* The module declares originalDecl; attr holds the declarations the
\* predicate is true of.
DeclareOriginal(kind, attr) ==
  /\ matching.phase = "idle"
  /\ matching' = [phase |-> "declared", kind |-> kind, attr |-> attr, refs |-> {},
                  toVisit |-> <<>>, didVisit |-> {}, evaluated |-> <<>>, result |-> FALSE]
  /\ UNCHANGED <<liveVars, search, wl, typeVars, featureVars>>
  /\ UNCHANGED <<projections, filtered, contiguous>>

\* A declaration names a type: only a nominal type declaration is named, an
\* extension has its one extended type, and only declarations with an
\* interface type or inherited types have them.
AddTypeReference(from, via, to, position) ==
  /\ matching.phase = "declared"
  /\ Cardinality(matching.refs) < MaxRefs
  /\ kindOf(matching, to) = "nominal"
  /\ \E i \in 1..Len(viasOf(kindOf(matching, from))) : viasOf(kindOf(matching, from))[i] = via
  /\ via = "extended" /\ position = "nominal" =>
       \A ref \in matching.refs :
         ~(ref[1] = from /\ ref[2] = "extended" /\ ref[4] = "nominal")
  /\ matching' = [matching EXCEPT !.refs = @ \cup {<<from, via, to, position>>}]
  /\ UNCHANGED <<liveVars, search, wl, typeVars, featureVars>>
  /\ UNCHANGED <<projections, filtered, contiguous>>

\* usesTypeDeclMatching(originalDecl, predicate) up to its loop.
UsesTypeDeclMatching ==
  /\ matching.phase = "declared"
  /\ matching' = [matching EXCEPT !.phase = "visiting", !.toVisit = <<OriginalDecl>>]
  /\ UNCHANGED <<liveVars, search, wl, typeVars, featureVars>>
  /\ UNCHANGED <<projections, filtered, contiguous>>

VisitDecl ==
  /\ matching.phase = "visiting"
  /\ matching.toVisit # <<>>
  /\ matching' = visitDecl(matching)
  /\ UNCHANGED <<liveVars, search, wl, typeVars, featureVars>>
  /\ UNCHANGED <<projections, filtered, contiguous>>

\* toVisit.size() == 0: return false.
NothingToVisit ==
  /\ matching.phase = "visiting"
  /\ matching.toVisit = <<>>
  /\ matching' = [matching EXCEPT !.phase = "done", !.result = FALSE]
  /\ UNCHANGED <<liveVars, search, wl, typeVars, featureVars>>
  /\ UNCHANGED <<projections, filtered, contiguous>>

InitMatching == NoAnalysis /\ NoProjection /\ NoFeatureQuery /\ NoCalls

NextMatching ==
  \/ \E kind \in DeclKinds, attr \in SUBSET Decls : DeclareOriginal(kind, attr)
  \/ \E from \in Decls, via \in Vias, to \in Decls, position \in Positions :
       AddTypeReference(from, via, to, position)
  \/ UsesTypeDeclMatching
  \/ VisitDecl
  \/ NothingToVisit

SpecMatching == InitMatching /\ [][NextMatching]_vars

\* A call runs its loop until it returns.
FairMatching == SpecMatching /\ WF_vars(VisitDecl \/ NothingToVisit)


\* The nominal type declarations a declaration names: the declaration of
\* each inherited type, of the extended type, of each generic parameter's
\* inherited types and of each requirement type, and the declarations of all
\* types occurring in the interface type.
NamedBy(decl) ==
  {ref[3] : ref \in {r \in matching.refs :
                       r[1] = decl /\ (r[2] = "interface" \/ r[4] = "nominal")}}

RECURSIVE ReachableDecls(_, _)
ReachableDecls(found, n) ==
  IF n = 0 THEN found
  ELSE ReachableDecls(found \cup UNION {NamedBy(d) : d \in found}, n - 1)

ReachableFromOriginal == ReachableDecls({OriginalDecl}, Cardinality(Decls))

\* C37: every call returns, also when the declarations name each other in a
\* cycle; the predicate is evaluated at most once per declaration; and the
\* call returns true exactly when the predicate holds for the declaration
\* itself or for a nominal type declaration reachable from it through the
\* types it names.
C37_UsesTypeDecl ==
  /\ [](\A j, k \in 1..Len(matching.evaluated) :
          matching.evaluated[j] = matching.evaluated[k] => j = k)
  /\ [](matching.phase = "done" =>
          (matching.result <=> \E decl \in ReachableFromOriginal : decl \in matching.attr))
  /\ (matching.phase = "visiting") ~> (matching.phase = "done")

\* An extension of a type that carries the attribute, the extension's where
\* clause naming a second type: the call evaluated the predicate on the
\* extension and on one type, and returned true.
C37_Witness ==
  /\ matching.phase = "done"
  /\ matching.kind = "extension"
  /\ OriginalDecl \notin matching.attr
  /\ matching.result
  /\ Len(matching.evaluated) = 2
  /\ \E ref \in matching.refs : ref[1] = OriginalDecl /\ ref[2] = "extended"
  /\ \E ref \in matching.refs : ref[1] = OriginalDecl /\ ref[2] = "requirement"

====
